---- MODULE Spec2Model ----
(***************************************************************************)
(* State-machine model of the layered timeline, playback scheduler and     *)
(* undo/redo log of the vector animation editor (src/main.js, the third    *)
(* and last iteration of the script, lines 2161-5019).                      *)
(*                                                                         *)
(* Frame indices are 0-based as in the source; a JavaScript array is a     *)
(* TLA+ sequence, so element i of the source is element i+1 of the         *)
(* sequence (operators Has and At).  An absent field / undefined value is  *)
(* Undefined.  A layer id 'layer-n' is the number n.                        *)
(*                                                                         *)
(* Every frame carries two history fields the source does not have: fid,   *)
(* the tag addHoldFrame gives the frame it is applied to (0 for a frame it *)
(* was never applied to), and src, in a hold frame, the tag of the frame   *)
(* addHoldFrame was applied to when it created the hold frame.  They never *)
(* influence an action; JSON copies carry them along.  They are recorded   *)
(* only under the specifications whose log.ids is TRUE, and are 0 under    *)
(* the others.                                                             *)
(*                                                                         *)
(* A frame's paths is a JavaScript array object, which two frames could    *)
(* hold at once.  The field ref says which: 0 is an array no other frame   *)
(* holds, and frames with the same non-zero ref hold one array, so a push  *)
(* to it (stopDrawing) shows in all of them.  An array literal, a JSON     *)
(* copy and an imported file give ref 0.                                   *)
(***************************************************************************)
EXTENDS Integers, Sequences, FiniteSets, TLC

VARIABLES
    layers,             \* state.layers
    currentLayerId,     \* state.currentLayerId
    currentFrameIndex,  \* state.currentFrameIndex
    maxFrames,          \* state.maxFrames
    layerIdCounter,     \* state.layerIdCounter
    isDrawing,          \* state.isDrawing
    currentPath,        \* state.currentPath: <<the path element being drawn>>, <<>> for null
    tool,               \* state.tool: "pen" or "eraser"
    taper,              \* state.taper
    isPlaying,          \* state.isPlaying
    playInterval,       \* state.playInterval: a requestAnimationFrame handle or NoHandle
    fps,                \* state.fps
    undoStack,          \* state.undoStack
    redoStack,          \* state.redoStack
    rafQueue,           \* callbacks requestAnimationFrame has scheduled and not yet run
    playIcon,           \* text of the play button's icon: "play" or "stop"
    intervals,          \* the setInterval timers that are still registered
    modal,              \* the open modal dialog and its confirm callback
    frameList,          \* the frame items the timeline strip currently shows
    layerList,          \* the layer items the layer panel currently shows
    log                 \* history variables of the specification at hand

vars == <<layers, currentLayerId, currentFrameIndex, maxFrames, layerIdCounter,
          isDrawing, currentPath, tool, taper, isPlaying, playInterval, fps,
          undoStack, redoStack, rafQueue, playIcon, intervals, modal, frameList,
          layerList, log>>

(***************************************************************************)
(* Bounds of the model (none of them is a constant of the program).        *)
(***************************************************************************)
MaxLayers == 2
MaxLen == 3
MaxHoldLen == 5
MaxUndoLen == 2
MaxUndoPaths == 2
MaxUndo == 2
MaxPaths == 1
MaxHistory == 1
MaxHold == 1
MaxHoldCount == 2
MaxRunLen == 2
MaxCapPaths == 51
MaxOnionDepth == 2
MaxOnionLen == 3
MaxOnionStrokes == 2
MaxTaper == 1
MaxBrushStrokes == 2
MaxCoord == 9
Grid == 10
NumPathData == 1
MaxIterations == 3
MaxLayerId == 2
TimeStep == 50
FastFps == 100

(***************************************************************************)
(* Constants of the program.                                               *)
(***************************************************************************)
UndoCap == 50
NoHandle == 0
DefaultFps == 12
MinFrameDelay == 16
MAX_ITERATIONS == 10000
MinCircleSize == 50
SquarePercent == 85

Undefined == 0 - 1

(***************************************************************************)
(* JavaScript array primitives.                                            *)
(***************************************************************************)
Has(s, i) == i >= 0 /\ i < Len(s)

At(s, i) == s[i + 1]

SetAt(s, i, x) == [s EXCEPT ![i + 1] = x]

RelStart(s, start) ==
    IF start < 0
    THEN (IF Len(s) + start < 0 THEN 0 ELSE Len(s) + start)
    ELSE (IF start > Len(s) THEN Len(s) ELSE start)

SpliceIn(s, start, x) ==
    LET k == RelStart(s, start)
    IN  SubSeq(s, 1, k) \o <<x>> \o SubSeq(s, k + 1, Len(s))

SpliceOut(s, start) ==
    LET k == RelStart(s, start)
    IN  IF k >= Len(s) THEN s ELSE SubSeq(s, 1, k) \o SubSeq(s, k + 2, Len(s))

MaxOf(S) == CHOOSE m \in S : \A x \in S : x <= m

MinOf(S) == CHOOSE m \in S : \A x \in S : m <= x

\* state.layers.findIndex(l => l.id === id): the first match, -1 when none
FindIndex(ls, id) ==
    IF \E i \in 1..Len(ls) : ls[i].id = id
    THEN MinOf({i \in 1..Len(ls) : ls[i].id = id}) - 1
    ELSE Undefined

\* state.layers.find(l => l.id === id) is defined
Found(ls, id) == FindIndex(ls, id) # Undefined

(***************************************************************************)
(* Derived values.                                                         *)
(***************************************************************************)
updateMaxFrames(ls) == MaxOf({Len(ls[i].frames) : i \in 1..Len(ls)} \cup {1})

NewFrame ==
    [paths |-> <<>>, hold |-> Undefined, holdReference |-> Undefined,
     fid |-> 0, src |-> 0, ref |-> 0]

NewLayer(n) ==
    [id |-> n, visible |-> TRUE, isBackground |-> FALSE, frames |-> <<NewFrame>>]

FrameIds(fr) == {fr[i].fid : i \in 1..Len(fr)} \cup {fr[i].src : i \in 1..Len(fr)}

StackIds(st) == {st[i].frameState.fid : i \in 1..Len(st)}
                    \cup {st[i].frameState.src : i \in 1..Len(st)}

UsedFids(ls, us, rs) ==
    (UNION {FrameIds(ls[i].frames) : i \in 1..Len(ls)}) \cup StackIds(us) \cup StackIds(rs)

\* a tag no frame and no snapshot carries
FreshIn(used) ==
    IF log.ids THEN MinOf({n \in 1..(Cardinality(used) + 1) : n \notin used}) ELSE 0

FreshFid == FreshIn(UsedFids(layers, undoStack, redoStack))

\* a tag no paths array of the layers has
FreshRef ==
    LET used == UNION {{layers[l].frames[j].ref : j \in 1..Len(layers[l].frames)} :
                          l \in 1..Len(layers)}
    IN  MinOf({n \in 1..(Cardinality(used) + 1) : n \notin used})

\* what updateFrameList leaves in the timeline strip: one item per frame of the
\* current layer, with its hold buttons
FrameListOf(ls, cur) ==
    IF ~Found(ls, cur) THEN <<>>
    ELSE LET fr == At(ls, FindIndex(ls, cur)).frames
         IN  [i \in 1..Len(fr) |->
                 [held |-> fr[i].holdReference # Undefined,
                  removable |-> fr[i].holdReference = Undefined /\ fr[i].hold > 0]]

\* what updateLayerList leaves in the layer panel: one item per layer
LayerListOf(ls) == [i \in 1..Len(ls) |-> [id |-> ls[i].id, bg |-> ls[i].isBackground]]


(***************************************************************************)
(* Initial state: the state literal (2167-2207) after init() with nothing  *)
(* in localStorage; init() registers the watchdog and autosave timers.    *)
(***************************************************************************)
NoModal == [kind |-> "none", title |-> "", layer |-> Undefined]

InitWith(h) ==
    /\ log = h
    /\ layers = <<NewLayer(1)>>
    /\ currentLayerId = 1
    /\ currentFrameIndex = 0
    /\ maxFrames = 1
    /\ layerIdCounter = 1
    /\ isDrawing = FALSE
    /\ currentPath = <<>>
    /\ tool = "pen"
    /\ taper = 0
    /\ isPlaying = FALSE
    /\ playInterval = NoHandle
    /\ fps = DefaultFps
    /\ undoStack = <<>>
    /\ redoStack = <<>>
    /\ rafQueue = {}
    /\ playIcon = "play"
    /\ intervals = {"watchdog", "autosave"}
    /\ modal = NoModal
    /\ frameList = FrameListOf(layers, currentLayerId)
    /\ layerList = LayerListOf(layers)

Init == InitWith([ids |-> FALSE])

drawVars == <<isDrawing, currentPath, tool, taper>>
playVars == <<isPlaying, playInterval, rafQueue, playIcon, intervals>>
histVars == <<undoStack, redoStack>>

(***************************************************************************)
(* Environment: a click on a control of the page needs the pointer, which  *)
(* a stroke in progress holds, and is swallowed by the backdrop of an open *)
(* modal.  Keyboard shortcuts and timers are not affected.                 *)
(***************************************************************************)
UiFree == modal.kind = "none" /\ ~isDrawing

CurIdx == FindIndex(layers, currentLayerId)

(***************************************************************************)
(* Layer management (2771-2883).                                           *)
(***************************************************************************)
addLayer ==
    /\ UiFree
    /\ LET n  == layerIdCounter + 1
           ls == Append(layers, NewLayer(n))
       IN  /\ layerIdCounter' = n
           /\ layers' = ls
           /\ currentLayerId' = n
           /\ layerList' = LayerListOf(ls)
           /\ frameList' = FrameListOf(ls, n)
    /\ UNCHANGED <<currentFrameIndex, maxFrames, fps, modal>>
    /\ UNCHANGED <<drawVars, playVars, histVars>>

Swap(s, i, j) == [s EXCEPT ![i + 1] = s[j + 1], ![j + 1] = s[i + 1]]

\* the up arrow of a layer item; it is disabled on the top (last) layer
moveLayerUp(layerId) ==
    /\ UiFree
    /\ \E k \in 1..Len(layerList) : layerList[k].id = layerId
    /\ LET index == FindIndex(layers, layerId)
       IN  /\ index # Len(layers) - 1
           /\ Has(layers, index) /\ Has(layers, index + 1)
           /\ layers' = Swap(layers, index, index + 1)
    /\ layerList' = LayerListOf(layers')
    /\ UNCHANGED <<currentLayerId, currentFrameIndex, maxFrames, layerIdCounter,
                   fps, modal, frameList>>
    /\ UNCHANGED <<drawVars, playVars, histVars>>

\* the down arrow of a layer item; it is disabled on the bottom (first) layer
moveLayerDown(layerId) ==
    /\ UiFree
    /\ \E k \in 1..Len(layerList) : layerList[k].id = layerId
    /\ LET index == FindIndex(layers, layerId)
       IN  /\ index # 0
           /\ Has(layers, index) /\ Has(layers, index - 1)
           /\ layers' = Swap(layers, index, index - 1)
    /\ layerList' = LayerListOf(layers')
    /\ UNCHANGED <<currentLayerId, currentFrameIndex, maxFrames, layerIdCounter,
                   fps, modal, frameList>>
    /\ UNCHANGED <<drawVars, playVars, histVars>>

\* a delete button that also offers the only layer for deletion
OnlyLayerDeletable(ls) == Len(ls) >= 1

\* the test of the delete button of a layer item (2982), which deleteLayer
\* repeats with an alert (2822-2825)
MoreThanOneLayer(ls) == Len(ls) > 1

\* the delete button of a layer item (2980-2985) calling deleteLayer (2821-2829):
\* the id the button passes is dropped, the confirm dialog opens
deleteLayer(layerId) ==
    /\ UiFree
    /\ \E k \in 1..Len(layerList) : layerList[k].id = layerId
    /\ MoreThanOneLayer(layers)
    /\ modal' = [kind |-> "deleteLayer", title |-> "Delete Layer", layer |-> Undefined]
    /\ UNCHANGED <<layers, currentLayerId, currentFrameIndex, maxFrames,
                   layerIdCounter, fps, frameList, layerList>>
    /\ UNCHANGED <<drawVars, playVars, histVars>>

\* the confirm callback of deleteLayer (2830-2844)
deleteLayerConfirm ==
    /\ modal.kind = "deleteLayer"
    /\ modal' = NoModal
    /\ LET layerIndex == CurIdx
           ls == SpliceOut(layers, layerIndex)
           sel == IF layerIndex - 1 > 0 THEN layerIndex - 1 ELSE 0
       IN  /\ layers' = ls
           /\ IF Has(ls, sel)
              THEN /\ currentLayerId' = At(ls, sel).id
                   /\ maxFrames' = updateMaxFrames(ls)
                   /\ layerList' = LayerListOf(ls)
                   /\ frameList' = FrameListOf(ls, At(ls, sel).id)
              ELSE \* state.layers[0] is undefined: the callback throws
                   UNCHANGED <<currentLayerId, maxFrames, layerList, frameList>>
    /\ UNCHANGED <<currentFrameIndex, layerIdCounter, fps>>
    /\ UNCHANGED <<drawVars, playVars, histVars>>

selectLayer(layerId) ==
    /\ UiFree
    /\ \E k \in 1..Len(layerList) : layerList[k].id = layerId
    /\ currentLayerId' = layerId
    /\ layerList' = LayerListOf(layers)
    /\ frameList' = FrameListOf(layers, layerId)
    /\ UNCHANGED <<layers, currentFrameIndex, maxFrames, layerIdCounter, fps, modal>>
    /\ UNCHANGED <<drawVars, playVars, histVars>>

\* the visibility checkbox of a layer item (2902-2906)
toggleLayerVisibility(layerId) ==
    /\ UiFree
    /\ \E k \in 1..Len(layerList) : layerList[k].id = layerId
    /\ LET i == FindIndex(layers, layerId)
       IN  layers' = IF i = Undefined THEN layers
                     ELSE [layers EXCEPT ![i + 1].visible = ~layers[i + 1].visible]
    /\ layerList' = LayerListOf(layers')
    /\ UNCHANGED <<currentLayerId, currentFrameIndex, maxFrames, layerIdCounter,
                   fps, modal, frameList>>
    /\ UNCHANGED <<drawVars, playVars, histVars>>

\* the BG checkbox of a layer item (2956-2959): isBackground is the new,
\* toggled state of the checkbox the panel showed
toggleBackgroundLayer(layerId, isBackground) ==
    /\ UiFree
    /\ \E k \in 1..Len(layerList) :
           layerList[k].id = layerId /\ layerList[k].bg = ~isBackground
    /\ LET i == FindIndex(layers, layerId)
       IN  /\ i # Undefined
           /\ LET fr  == layers[i + 1].frames
                  fr2 == IF isBackground /\ Len(fr) = 0
                         THEN <<NewFrame>> ELSE fr
                  ls  == [layers EXCEPT ![i + 1].isBackground = isBackground,
                                        ![i + 1].frames = fr2]
              IN  /\ layers' = ls
                  /\ maxFrames' = updateMaxFrames(ls)
                  /\ layerList' = LayerListOf(ls)
    /\ UNCHANGED <<currentLayerId, currentFrameIndex, layerIdCounter, fps, modal,
                   frameList>>
    /\ UNCHANGED <<drawVars, playVars, histVars>>


(***************************************************************************)
(* Undo snapshots (4325-4339).                                             *)
(***************************************************************************)
\* a stack that is never cut
uncapped(us) == us

\* if (state.undoStack.length > 50) state.undoStack.shift() (4336-4338)
capped(us) == IF Len(us) > UndoCap THEN Tail(us) ELSE us

\* the undo stack saveStateForUndo leaves, for current layer id cur and playhead idx
saveStateForUndo(ls, cur, idx, us) ==
    IF ~Found(ls, cur) \/ ~Has(At(ls, FindIndex(ls, cur)).frames, idx)
    THEN us
    ELSE LET pushed == Append(us, [layerId |-> cur, frameIndex |-> idx,
                                   frameState |->
                                       [At(At(ls, FindIndex(ls, cur)).frames, idx)
                                            EXCEPT !.ref = 0]])
         IN  capped(pushed)

(***************************************************************************)
(* Drawing (3048-3112, 3114-3183, 3354-3400).  The path data a pointer     *)
(* move produces is one value of PathData; before the first admitted move  *)
(* the path element has no d attribute.                                    *)
(***************************************************************************)
PathData == 1..NumPathData

RECURSIVE Extend(_, _)
\* while (frames.length <= target) frames.push({ paths: [] })
Extend(fr, target) ==
    IF Len(fr) > target THEN fr ELSE Extend(Append(fr, NewFrame), target)

\* the path element startDrawing creates (3081-3105): it has no d attribute;
\* closed tells of the d attribute set later whether it is the closed outline
\* of createTaperedPath or the open line of pointsToPath
pathElement(tp, tl) ==
    [d |-> Undefined, closed |-> FALSE,
     fill |-> IF tp > 0 /\ tl = "pen" THEN "strokeColor" ELSE "none",
     stroke |-> IF tl = "eraser" THEN "white"
                ELSE IF tp > 0 /\ tl = "pen" THEN "none" ELSE "strokeColor"]

startDrawing ==
    /\ modal.kind = "none" /\ ~isDrawing
    /\ ~isPlaying
    /\ Found(layers, currentLayerId)
    /\ At(layers, CurIdx).visible
    /\ LET currentLayer == At(layers, CurIdx)
           drawFrameIndex == IF currentLayer.isBackground THEN 0 ELSE currentFrameIndex
           missing == ~Has(currentLayer.frames, drawFrameIndex)
           fr == IF missing
                 THEN Extend(currentLayer.frames, drawFrameIndex)
                 ELSE currentLayer.frames
           ls == [layers EXCEPT ![CurIdx + 1].frames = fr]
       IN  /\ layers' = ls
           /\ maxFrames' = IF missing THEN updateMaxFrames(ls) ELSE maxFrames
           /\ undoStack' = saveStateForUndo(ls, currentLayerId, currentFrameIndex, undoStack)
    /\ isDrawing' = TRUE
    /\ currentPath' = <<pathElement(taper, tool)>>
    /\ UNCHANGED <<currentLayerId, currentFrameIndex, layerIdCounter, fps, redoStack,
                   modal, frameList, layerList, tool, taper, playVars>>

\* a pointer move that is admitted and sets the d attribute of the path element
draw(pathData) ==
    /\ isDrawing /\ currentPath # <<>>
    /\ currentPath' = <<[currentPath[1] EXCEPT !.d = pathData,
                                               !.closed = (tool = "pen" /\ taper > 0)]>>
    /\ UNCHANGED <<layers, currentLayerId, currentFrameIndex, maxFrames, layerIdCounter,
                   isDrawing, fps, modal, frameList, layerList, tool, taper, playVars,
                   histVars>>

\* the input event of the taper slider (2387-2390), which the arrow keys raise
\* on the focused slider also while a stroke is in progress
taperSlider(value) ==
    /\ taper' = value
    /\ UNCHANGED <<layers, currentLayerId, currentFrameIndex, maxFrames, layerIdCounter,
                   isDrawing, currentPath, tool, fps, modal, frameList, layerList,
                   playVars, histVars>>

\* a click on the pen or the eraser button (2323-2324, 3859-3869)
selectTool(newTool) ==
    /\ UiFree
    /\ tool' = newTool
    /\ UNCHANGED <<layers, currentLayerId, currentFrameIndex, maxFrames, layerIdCounter,
                   isDrawing, currentPath, taper, fps, modal, frameList, layerList,
                   playVars, histVars>>

\* frames[saveFrameIndex].paths.push(pathData) (3386): the array grows in place,
\* for every frame that holds it
pushed(ls, li, saveFrameIndex, pathData) ==
    LET array == At(At(ls, li).frames, saveFrameIndex).ref
    IN  [l \in 1..Len(ls) |->
            [ls[l] EXCEPT !.frames =
                [j \in 1..Len(ls[l].frames) |->
                    IF \/ l = li + 1 /\ j = saveFrameIndex + 1
                       \/ array # 0 /\ ls[l].frames[j].ref = array
                    THEN [ls[l].frames[j] EXCEPT !.paths = Append(@, pathData)]
                    ELSE ls[l].frames[j]]]]

\* an edit that leaves the redo stack as it is
redoKept(rs) == rs

\* state.redoStack = [] (3389, 3880): clear redo stack on new action
newAction(rs) == <<>>

stopDrawing ==
    /\ isDrawing
    /\ isDrawing' = FALSE
    /\ currentPath' = <<>>
    /\ LET found == Found(layers, currentLayerId)
           saveFrameIndex == IF found /\ At(layers, CurIdx).isBackground
                             THEN 0 ELSE currentFrameIndex
       IN  IF currentPath # <<>> /\ found
              /\ Has(At(layers, CurIdx).frames, saveFrameIndex)
           THEN /\ layers' = pushed(layers, CurIdx, saveFrameIndex, currentPath[1])
                /\ redoStack' = newAction(redoStack)
                /\ frameList' = FrameListOf(layers', currentLayerId)
           ELSE UNCHANGED <<layers, redoStack, frameList>>
    /\ UNCHANGED <<currentLayerId, currentFrameIndex, maxFrames, layerIdCounter, fps,
                   undoStack, modal, layerList, tool, taper, playVars>>

\* clearCurrentFrame (3871-3886) with the browser's confirm() answered yes
clearCurrentFrame ==
    /\ UiFree
    /\ Found(layers, currentLayerId)
    /\ Has(At(layers, CurIdx).frames, currentFrameIndex)
    /\ undoStack' = saveStateForUndo(layers, currentLayerId, currentFrameIndex, undoStack)
    /\ layers' = [layers EXCEPT ![CurIdx + 1].frames[currentFrameIndex + 1].paths = <<>>,
                                ![CurIdx + 1].frames[currentFrameIndex + 1].ref = 0]
    /\ redoStack' = newAction(redoStack)
    /\ frameList' = FrameListOf(layers', currentLayerId)
    /\ UNCHANGED <<currentLayerId, currentFrameIndex, maxFrames, layerIdCounter, fps,
                   modal, layerList, drawVars, playVars>>

(***************************************************************************)
(* Frame management on the current layer (3890-4045).                      *)
(***************************************************************************)
\* an addFrame that always adds the frame at the end
framesAppended(fr, frameIndex) == Append(fr, NewFrame)

\* the frames addFrame leaves of the frames fr with the playhead at frameIndex
\* (3896-3906)
framesWithNew(fr, frameIndex) ==
    IF frameIndex + 1 <= Len(fr)
    THEN SpliceIn(fr, frameIndex + 1, NewFrame)
    ELSE Append(fr, NewFrame)

addFrame ==
    /\ UiFree
    /\ Found(layers, currentLayerId)
    /\ LET fr == At(layers, CurIdx).frames
           insertIndex == currentFrameIndex + 1
           fr2 == framesWithNew(fr, currentFrameIndex)
           ls == [layers EXCEPT ![CurIdx + 1].frames = fr2]
       IN  /\ layers' = ls
           /\ currentFrameIndex' = IF insertIndex <= Len(fr) THEN insertIndex
                                   ELSE Len(fr2) - 1
           /\ maxFrames' = updateMaxFrames(ls)
           /\ frameList' = FrameListOf(ls, currentLayerId)
    /\ UNCHANGED <<currentLayerId, layerIdCounter, fps, modal, layerList>>
    /\ UNCHANGED <<drawVars, playVars, histVars>>

\* a duplicate that is given the paths array of the frame itself: the frame
\* and its duplicate hold one array
duplicateSharing(frame) ==
    LET array == IF frame.ref # 0 THEN frame.ref ELSE FreshRef
    IN  <<[frame EXCEPT !.ref = array],
          [NewFrame EXCEPT !.paths = frame.paths, !.ref = array]>>

\* the frame and its duplicate (3921-3924): the duplicate has an array of its
\* own, parsed from the JSON text of the frame's paths
duplicate(frame) == <<frame, [NewFrame EXCEPT !.paths = frame.paths]>>

duplicateFrame ==
    /\ UiFree
    /\ Found(layers, currentLayerId)
    /\ Has(At(layers, CurIdx).frames, currentFrameIndex)
    /\ LET fr == At(layers, CurIdx).frames
           both == duplicate(At(fr, currentFrameIndex))
           ls == [layers EXCEPT ![CurIdx + 1].frames =
                      SpliceIn(SetAt(fr, currentFrameIndex, both[1]),
                               currentFrameIndex + 1, both[2])]
       IN  /\ layers' = ls
           /\ currentFrameIndex' = currentFrameIndex + 1
           /\ maxFrames' = updateMaxFrames(ls)
           /\ frameList' = FrameListOf(ls, currentLayerId)
           /\ layerList' = LayerListOf(ls)
    /\ UNCHANGED <<currentLayerId, layerIdCounter, fps, modal>>
    /\ UNCHANGED <<drawVars, playVars, histVars>>

\* the + button of a frame item that is not a held frame (4120-4132)
addHoldFrame(frameIndex) ==
    /\ UiFree
    /\ Has(frameList, frameIndex) /\ ~At(frameList, frameIndex).held
    /\ Found(layers, currentLayerId)
    /\ Has(At(layers, CurIdx).frames, frameIndex)
    /\ At(At(layers, CurIdx).frames, frameIndex).holdReference = Undefined
    /\ LET fr == At(layers, CurIdx).frames
           frame == At(fr, frameIndex)
           hold == (IF frame.hold = Undefined \/ frame.hold = 0 THEN 0 ELSE frame.hold) + 1
           insertIndex == frameIndex + hold
           tag == IF frame.fid # 0 THEN frame.fid ELSE FreshFid
           held == [NewFrame EXCEPT !.holdReference = frameIndex, !.src = tag]
           ls == [layers EXCEPT ![CurIdx + 1].frames =
                      SpliceIn(SetAt(fr, frameIndex,
                                     [frame EXCEPT !.hold = hold, !.fid = tag]),
                               insertIndex, held)]
       IN  /\ layers' = ls
           /\ maxFrames' = updateMaxFrames(ls)
           /\ frameList' = FrameListOf(ls, currentLayerId)
           /\ layerList' = LayerListOf(ls)
    /\ UNCHANGED <<currentLayerId, currentFrameIndex, layerIdCounter, fps, modal>>
    /\ UNCHANGED <<drawVars, playVars, histVars>>

\* the index of the last frame after frameIndex whose holdReference is frameIndex,
\* Undefined when there is none (the loop at 3979-3986)
LastHeld(fr, frameIndex) ==
    LET hits == {i \in (frameIndex + 1)..(Len(fr) - 1) : At(fr, i).holdReference = frameIndex}
    IN  IF hits = {} THEN Undefined ELSE MaxOf(hits)

\* the frames removeHoldFrame (3968-4003) leaves of the frames fr of the layer
removeHold(fr, frameIndex) ==
    IF ~Has(fr, frameIndex) \/ ~(At(fr, frameIndex).hold > 0)
       \/ LastHeld(fr, frameIndex) = Undefined
    THEN fr
    ELSE LET frame == At(fr, frameIndex)
             hold == frame.hold - 1
         IN  SetAt(SpliceOut(fr, LastHeld(fr, frameIndex)), frameIndex,
                   [frame EXCEPT !.hold = IF hold = 0 THEN Undefined ELSE hold])

\* the - button of a frame item with a positive hold count (4135-4143)
removeHoldFrame(frameIndex) ==
    /\ UiFree
    /\ Has(frameList, frameIndex) /\ At(frameList, frameIndex).removable
    /\ Found(layers, currentLayerId)
    /\ Has(At(layers, CurIdx).frames, frameIndex)
    /\ At(At(layers, CurIdx).frames, frameIndex).hold > 0
    /\ LET fr == At(layers, CurIdx).frames
           i == LastHeld(fr, frameIndex)
           ls == [layers EXCEPT ![CurIdx + 1].frames = removeHold(fr, frameIndex)]
       IN  /\ i # Undefined
           /\ layers' = ls
           /\ maxFrames' = updateMaxFrames(ls)
           /\ frameList' = FrameListOf(ls, currentLayerId)
           /\ layerList' = LayerListOf(ls)
    /\ UNCHANGED <<currentLayerId, currentFrameIndex, layerIdCounter, fps, modal>>
    /\ UNCHANGED <<drawVars, playVars, histVars>>

\* deleteFrame up to the dialog it opens (4005-4020): an alert, or the confirm
\* dialog whose callback keeps the layer object found here
deleteFrame ==
    /\ UiFree
    /\ IF ~Found(layers, currentLayerId) \/ Len(At(layers, CurIdx).frames) = 1
       THEN modal' = [kind |-> "alert", title |-> "Error", layer |-> Undefined]
       ELSE IF ~Has(At(layers, CurIdx).frames, currentFrameIndex)
            THEN modal' = [kind |-> "alert", title |-> "Error", layer |-> Undefined]
            ELSE modal' = [kind |-> "deleteFrame", title |-> "Delete Frame",
                           layer |-> CurIdx]
    /\ UNCHANGED <<layers, currentLayerId, currentFrameIndex, maxFrames, layerIdCounter,
                   fps, frameList, layerList>>
    /\ UNCHANGED <<drawVars, playVars, histVars>>

\* the confirm callback of deleteFrame (4021-4034)
deleteFrameConfirm ==
    /\ modal.kind = "deleteFrame"
    /\ modal' = NoModal
    /\ LET fr == SpliceOut(At(layers, modal.layer).frames, currentFrameIndex)
           ls == [layers EXCEPT ![modal.layer + 1].frames = fr]
       IN  /\ layers' = ls
           /\ currentFrameIndex' = IF currentFrameIndex >= Len(fr) THEN Len(fr) - 1
                                   ELSE currentFrameIndex
           /\ maxFrames' = updateMaxFrames(ls)
           /\ frameList' = FrameListOf(ls, currentLayerId)
           /\ layerList' = LayerListOf(ls)
    /\ UNCHANGED <<currentLayerId, layerIdCounter, fps>>
    /\ UNCHANGED <<drawVars, playVars, histVars>>

\* closeModal (3556-3558): Cancel, the close button, the backdrop, or OK on an alert
closeModal ==
    /\ modal.kind # "none"
    /\ modal' = NoModal
    /\ UNCHANGED <<layers, currentLayerId, currentFrameIndex, maxFrames, layerIdCounter,
                   fps, frameList, layerList>>
    /\ UNCHANGED <<drawVars, playVars, histVars>>

\* a click on a frame item of the timeline strip (4105-4110)
selectFrame(index) ==
    /\ UiFree
    /\ Has(frameList, index)
    /\ ~isPlaying
    /\ currentFrameIndex' = index
    /\ frameList' = FrameListOf(layers, currentLayerId)
    /\ UNCHANGED <<layers, currentLayerId, maxFrames, layerIdCounter, fps, modal, layerList>>
    /\ UNCHANGED <<drawVars, playVars, histVars>>

(***************************************************************************)
(* Undo / redo (4341-4388); the keyboard shortcuts reach them at any time. *)
(***************************************************************************)
\* a copy of the frame that loses its strokes
currentStateEmptied(ls, li, frameIndex) ==
    [At(At(ls, li).frames, frameIndex) EXCEPT !.paths = <<>>]

\* JSON.parse(JSON.stringify(layer.frames[frameIndex])) in undo (4349)
currentState(ls, li, frameIndex) == [At(At(ls, li).frames, frameIndex) EXCEPT !.ref = 0]

\* a restore that puts the snapshot into every frame of the layer
restoredWholeLayer(ls, li, frameIndex, frameState) ==
    [ls EXCEPT ![li + 1].frames = [j \in 1..Len(@) |-> frameState]]

\* layer.frames[frameIndex] = frameState (4358, 4380)
restored(ls, li, frameIndex, frameState) ==
    [ls EXCEPT ![li + 1].frames[frameIndex + 1] = frameState]

undo ==
    /\ Len(undoStack) > 0
    /\ LET previousState == undoStack[Len(undoStack)]
           popped == SubSeq(undoStack, 1, Len(undoStack) - 1)
           li == FindIndex(layers, previousState.layerId)
       IN  /\ undoStack' = popped
           /\ IF li = Undefined \/ ~Has(At(layers, li).frames, previousState.frameIndex)
              THEN UNCHANGED <<layers, redoStack, currentLayerId, currentFrameIndex,
                               frameList, layerList>>
              ELSE /\ redoStack' = Append(redoStack,
                          [layerId |-> previousState.layerId,
                           frameIndex |-> previousState.frameIndex,
                           frameState |-> currentState(layers, li,
                                                       previousState.frameIndex)])
                   /\ layers' = restored(layers, li, previousState.frameIndex,
                                          previousState.frameState)
                   /\ currentLayerId' = previousState.layerId
                   /\ currentFrameIndex' = previousState.frameIndex
                   /\ frameList' = FrameListOf(layers', previousState.layerId)
                   /\ layerList' = LayerListOf(layers')
    /\ UNCHANGED <<maxFrames, layerIdCounter, fps, modal, drawVars, playVars>>

redo ==
    /\ Len(redoStack) > 0
    /\ LET nextState == redoStack[Len(redoStack)]
           popped == SubSeq(redoStack, 1, Len(redoStack) - 1)
           li == FindIndex(layers, nextState.layerId)
       IN  /\ redoStack' = popped
           /\ IF li = Undefined \/ ~Has(At(layers, li).frames, nextState.frameIndex)
              THEN UNCHANGED <<layers, undoStack, currentLayerId, currentFrameIndex,
                               frameList, layerList>>
              ELSE /\ undoStack' = saveStateForUndo(layers, currentLayerId,
                                                    currentFrameIndex, undoStack)
                   /\ layers' = restored(layers, li, nextState.frameIndex,
                                          nextState.frameState)
                   /\ currentLayerId' = nextState.layerId
                   /\ currentFrameIndex' = nextState.frameIndex
                   /\ frameList' = FrameListOf(layers', nextState.layerId)
                   /\ layerList' = LayerListOf(layers')
    /\ UNCHANGED <<maxFrames, layerIdCounter, fps, modal, drawVars, playVars>>


(***************************************************************************)
(* Playback (4173-4322).  A scheduled callback is the closure playbackLoop *)
(* of one startPlayback call: its handle, its frameDelay, its              *)
(* iterationCount, and elapsed = Date.now() - lastFrameTime, counted up to *)
(* frameDelay (all the loop compares it with).  The field stale is         *)
(* history: a stopPlayback has returned since the callback was scheduled.  *)
(***************************************************************************)
FpsChoices == {DefaultFps, FastFps}

\* Math.max(1000 / fps, 16), rounded up: elapsed is a whole number of milliseconds
FrameDelay(f) ==
    IF 1000 <= MinFrameDelay * f THEN MinFrameDelay ELSE (1000 + f - 1) \div f

Handles(q) == {cb.handle : cb \in q}

\* the handle requestAnimationFrame returns: one no pending callback holds
NewHandle(q) == MinOf({h \in 1..(Cardinality(q) + 1) : h \notin Handles(q)})

\* a cancelAnimationFrame that leaves the callback scheduled
cancelAnimationFrameLeaves(q, h) == q

cancelAnimationFrame(q, h) == {cb \in q : cb.handle # h}

\* a stopPlayback that does not cancel the scheduled callback
stopQueueKeeps(q) == {[cb EXCEPT !.stale = TRUE] : cb \in q}

\* stopPlayback (4274-4322) as a function of the pending callbacks q
stopQueue(q) ==
    LET left == IF playInterval # NoHandle THEN cancelAnimationFrame(q, playInterval) ELSE q
    IN  {[cb EXCEPT !.stale = TRUE] : cb \in left}

\* a stopPlayback that clears the timers whether or not playback was running
stopIntervalsAlways == {}

\* the timers left by the clearInterval loop (4292-4297)
stopIntervals == IF isPlaying THEN {} ELSE intervals

stopPlayback ==
    /\ isPlaying' = FALSE
    /\ rafQueue' = stopQueue(rafQueue)
    /\ playInterval' = NoHandle
    /\ intervals' = stopIntervals
    /\ playIcon' = "play"
    /\ frameList' = FrameListOf(layers, currentLayerId)
    /\ UNCHANGED <<layers, currentLayerId, currentFrameIndex, maxFrames, layerIdCounter,
                   fps, modal, layerList, drawVars, histVars>>

\* a startPlayback that only refuses a timeline without frames
NoFrames(n) == n <= 0

\* if (state.maxFrames <= 1) return (4188-4191)
NotEnoughFrames(n) == n <= 1

\* startPlayback (4181-4272) with state.fps = f
startWith(f) ==
    LET q == stopQueue(rafQueue)
    IN  /\ intervals' = stopIntervals
        /\ frameList' = FrameListOf(layers, currentLayerId)
        /\ IF NotEnoughFrames(maxFrames)
           THEN /\ isPlaying' = FALSE
                /\ playInterval' = NoHandle
                /\ playIcon' = "play"
                /\ rafQueue' = q
           ELSE /\ isPlaying' = TRUE
                /\ playIcon' = "stop"
                /\ playInterval' = NewHandle(q)
                /\ rafQueue' = q \cup {[handle |-> NewHandle(q),
                                        frameDelay |-> FrameDelay(f),
                                        elapsed |-> 0,
                                        iterationCount |-> 0,
                                        stale |-> FALSE]}

startPlayback ==
    /\ startWith(fps)
    /\ UNCHANGED <<layers, currentLayerId, currentFrameIndex, maxFrames, layerIdCounter,
                   fps, modal, layerList, drawVars, histVars>>

\* the play button or the space bar (4173-4179)
togglePlayback ==
    IF isPlaying THEN stopPlayback ELSE startPlayback

\* the Escape key: the emergency stop (2717-2723) and the modal's handler (3547-3552)
escapeKey ==
    /\ isPlaying \/ modal.kind # "none"
    /\ modal' = NoModal
    /\ IF isPlaying
       THEN /\ isPlaying' = FALSE
            /\ rafQueue' = stopQueue(rafQueue)
            /\ playInterval' = NoHandle
            /\ intervals' = stopIntervals
            /\ playIcon' = "play"
            /\ frameList' = FrameListOf(layers, currentLayerId)
       ELSE UNCHANGED <<playVars, frameList>>
    /\ UNCHANGED <<layers, currentLayerId, currentFrameIndex, maxFrames, layerIdCounter,
                   fps, layerList, drawVars, histVars>>

\* the change handler of the fps selector (2557-2563)
fpsChange(f) ==
    /\ UiFree
    /\ f \in FpsChoices
    /\ fps' = f
    /\ IF isPlaying
       THEN startWith(f)
       ELSE UNCHANGED <<playVars, frameList>>
    /\ UNCHANGED <<layers, currentLayerId, currentFrameIndex, maxFrames, layerIdCounter,
                   modal, layerList, drawVars, histVars>>

\* the watchdog timer (2246-2266): it stops playback when icon and state disagree
watchdog ==
    /\ "watchdog" \in intervals
    /\ (playIcon = "stop" /\ ~isPlaying) \/ (playIcon = "play" /\ isPlaying)
    /\ stopPlayback

\* the clock advances by dt milliseconds
timePasses(dt) ==
    /\ \E cb \in rafQueue : cb.elapsed < cb.frameDelay
    /\ rafQueue' = {[cb EXCEPT !.elapsed = IF @ + dt > cb.frameDelay
                                            THEN cb.frameDelay ELSE @ + dt] : cb \in rafQueue}
    /\ UNCHANGED <<layers, currentLayerId, currentFrameIndex, maxFrames, layerIdCounter,
                   drawVars, isPlaying, playInterval, fps, undoStack,
                   redoStack, playIcon, intervals, modal, frameList, layerList>>

\* a tick that leaves the playhead on the last frame instead of wrapping
nextFrameIndexClamped(frameIndex, n) ==
    IF frameIndex + 1 < n THEN frameIndex + 1 ELSE frameIndex

\* (state.currentFrameIndex + 1) % state.maxFrames (4246)
nextFrameIndex(frameIndex, n) == (frameIndex + 1) % n

\* a loop that does not count its callbacks
notCounted(n) == n

\* iterationCount++ (4224)
counted(n) == n + 1

\* the browser runs the scheduled callback cb: playbackLoop (4212-4267)
playbackLoop(cb) ==
    /\ cb \in rafQueue
    /\ LET q == rafQueue \ {cb}
           advance == cb.elapsed >= cb.frameDelay
       IN  IF ~isPlaying
           THEN /\ rafQueue' = IF playInterval # NoHandle
                               THEN cancelAnimationFrame(q, playInterval) ELSE q
                /\ playInterval' = NoHandle
                /\ UNCHANGED <<isPlaying, playIcon, intervals, currentFrameIndex, frameList>>
           ELSE IF counted(cb.iterationCount) > MAX_ITERATIONS \/ playIcon # "stop"
           THEN /\ isPlaying' = FALSE
                /\ rafQueue' = stopQueue(q)
                /\ playInterval' = NoHandle
                /\ intervals' = stopIntervals
                /\ playIcon' = "play"
                /\ frameList' = FrameListOf(layers, currentLayerId)
                /\ UNCHANGED currentFrameIndex
           ELSE /\ currentFrameIndex' = IF advance
                                        THEN nextFrameIndex(currentFrameIndex, maxFrames)
                                        ELSE currentFrameIndex
                /\ frameList' = IF advance THEN FrameListOf(layers, currentLayerId)
                                ELSE frameList
                /\ playInterval' = NewHandle(q)
                /\ rafQueue' = q \cup {[cb EXCEPT !.handle = NewHandle(q),
                                                  !.elapsed = IF advance THEN 0 ELSE @,
                                                  !.iterationCount = counted(@)]}
                /\ UNCHANGED <<isPlaying, playIcon, intervals>>
    /\ UNCHANGED <<layers, currentLayerId, maxFrames, layerIdCounter, fps, modal,
                   layerList, drawVars, histVars>>


(***************************************************************************)
(* Import (4483-4522): the onload callback of the file reader, for a file  *)
(* whose JSON parses.  A file is its version check, its fps and its layers *)
(* array.                                                                  *)
(***************************************************************************)
FileFrame(paths, hold, holdReference) ==
    [paths |-> paths, hold |-> hold, holdReference |-> holdReference,
     fid |-> 0, src |-> 0, ref |-> 0]

FileLayer(id, frames) ==
    [id |-> id, visible |-> TRUE, isBackground |-> FALSE, frames |-> frames]

ImportFiles ==
    { [supported |-> FALSE, fps |-> FastFps,
       layers |-> <<FileLayer(1, <<FileFrame(<<>>, Undefined, Undefined)>>)>>],
      [supported |-> TRUE, fps |-> FastFps, layers |-> <<>>],
      [supported |-> TRUE, fps |-> Undefined,
       layers |-> <<FileLayer(1, <<FileFrame(<<>>, Undefined, Undefined),
                                   FileFrame(<<>>, Undefined, Undefined)>>)>>],
      [supported |-> TRUE, fps |-> FastFps,
       layers |-> <<FileLayer(1, <<FileFrame(<<>>, Undefined, Undefined)>>),
                    FileLayer(2, <<FileFrame(<<>>, 1, Undefined),
                                   FileFrame(<<>>, Undefined, 0)>>)>>],
      [supported |-> TRUE, fps |-> FastFps, layers |-> <<FileLayer(1, <<>>)>>] }

\* a file with a layer that has no frames array
BrokenFiles ==
    { [supported |-> TRUE, fps |-> FastFps,
       layers |-> <<[id |-> 1, visible |-> TRUE, isBackground |-> FALSE]>>] }

\* every layer has a frames array
HaveFrames(ls) == \A l \in 1..Len(ls) : "frames" \in DOMAIN ls[l]

importProject(file) ==
    /\ UiFree
    /\ file \in ImportFiles \cup BrokenFiles
    /\ modal' = [kind |-> "alert", layer |-> Undefined,
                 title |-> IF file.supported /\ Len(file.layers) > 0
                              /\ HaveFrames(file.layers)
                           THEN "Success" ELSE "Import Error"]
    /\ IF ~file.supported
       THEN UNCHANGED <<layers, fps, currentFrameIndex, currentLayerId, maxFrames,
                        frameList, layerList>>
       ELSE LET ls == file.layers
            IN  /\ layers' = ls
                /\ fps' = IF file.fps = Undefined THEN DefaultFps ELSE file.fps
                /\ currentFrameIndex' = 0
                /\ IF Len(ls) = 0
                   THEN \* state.layers[0] is undefined: the callback throws
                        UNCHANGED <<currentLayerId, maxFrames, frameList, layerList>>
                   ELSE IF ~HaveFrames(ls)
                   THEN \* l.frames.length throws in updateMaxFrames
                        /\ currentLayerId' = ls[1].id
                        /\ UNCHANGED <<maxFrames, frameList, layerList>>
                   ELSE /\ currentLayerId' = ls[1].id
                        /\ maxFrames' = updateMaxFrames(ls)
                        /\ layerList' = LayerListOf(ls)
                        /\ frameList' = FrameListOf(ls, ls[1].id)
    /\ UNCHANGED <<layerIdCounter, drawVars, playVars, histVars>>

(***************************************************************************)
(* Local storage (4411-4459): loadFromLocalStorage, which init() calls     *)
(* once, before any event is handled.  The stored item is absent, or a     *)
(* text that parses or does not; a parsed item is a record of its version, *)
(* its layers and the fields read with || ; an item without layers has no  *)
(* field layers, and a layer without frames has no field frames.           *)
(***************************************************************************)
AcceptedVersions == {"4.0", "4.1", "4.2"}

StoredLayer(id, frames) ==
    [id |-> id, visible |-> TRUE, isBackground |-> FALSE, frames |-> frames]

TwoFrames == <<FileFrame(<<>>, Undefined, Undefined), FileFrame(<<>>, Undefined, Undefined)>>

\* a stored layer without frames
NoFramesLayer(id) == [id |-> id, visible |-> TRUE, isBackground |-> FALSE]

\* a stored item without layers
NoLayers(present, parses, version) ==
    [present |-> present, parses |-> parses, version |-> version,
     currentLayerId |-> 2, currentFrameIndex |-> 1, maxFrames |-> 2,
     layerIdCounter |-> 2, fps |-> FastFps]

Stored(version, ls) ==
    [present |-> TRUE, parses |-> TRUE, version |-> version, layers |-> ls,
     currentLayerId |-> 2, currentFrameIndex |-> 1, maxFrames |-> 2,
     layerIdCounter |-> 2, fps |-> FastFps]

StoredData ==
    { NoLayers(FALSE, FALSE, ""),
      NoLayers(TRUE, FALSE, ""),
      NoLayers(TRUE, TRUE, "4.2"),
      Stored("3.0", <<StoredLayer(1, TwoFrames), StoredLayer(2, TwoFrames)>>),
      Stored("4.2", <<>>),
      Stored("4.1", <<NoFramesLayer(1), NoFramesLayer(2)>>),
      Stored("4.2", <<NoFramesLayer(1), StoredLayer(2, TwoFrames)>>),
      Stored("4.2", <<StoredLayer(1, TwoFrames), NoFramesLayer(2)>>),
      Stored("4.2", <<StoredLayer(1, TwoFrames), StoredLayer(2, TwoFrames)>>),
      [Stored("4.0", <<StoredLayer(1, TwoFrames)>>)
           EXCEPT !.currentLayerId = Undefined, !.currentFrameIndex = 0,
                  !.maxFrames = Undefined, !.layerIdCounter = Undefined,
                  !.fps = Undefined] }

\* v || d
OrElse(v, d) == IF v = Undefined \/ v = 0 THEN d ELSE v

resetToDefault ==
    /\ layers' = <<NewLayer(1)>>
    /\ currentLayerId' = 1
    /\ currentFrameIndex' = 0
    /\ maxFrames' = 1
    /\ layerIdCounter' = 1
    /\ fps' = DefaultFps

\* loadFromLocalStorage and the rest of init() (2235-2242), whose renderFrame
\* throws on a layer without frames before the lists are rebuilt
loadFromLocalStorage(data) ==
    /\ IF ~data.present
       THEN UNCHANGED <<layers, currentLayerId, currentFrameIndex, maxFrames,
                        layerIdCounter, fps>>
       ELSE IF /\ data.parses
               /\ data.version \in AcceptedVersions
               /\ "layers" \in DOMAIN data
               /\ Len(data.layers) > 0
               /\ "frames" \in DOMAIN data.layers[1]
       THEN /\ layers' = data.layers
            /\ currentLayerId' = OrElse(data.currentLayerId, data.layers[1].id)
            /\ currentFrameIndex' = OrElse(data.currentFrameIndex, 0)
            /\ maxFrames' = OrElse(data.maxFrames, 1)
            /\ layerIdCounter' = OrElse(data.layerIdCounter, 1)
            /\ fps' = OrElse(data.fps, DefaultFps)
       ELSE resetToDefault
    /\ IF HaveFrames(layers')
       THEN /\ frameList' = FrameListOf(layers', currentLayerId')
            /\ layerList' = LayerListOf(layers')
       ELSE UNCHANGED <<frameList, layerList>>
    /\ UNCHANGED <<modal, drawVars, playVars, histVars>>

(***************************************************************************)
(* Rendering (3708-3830): what renderFrame draws for one layer with the    *)
(* playhead at index.                                                      *)
(***************************************************************************)
\* a compositor that treats a background layer as any other layer
FrameAtPlayhead(layer, index) ==
    IF ~Has(layer.frames, index) THEN <<>>
    ELSE IF At(layer.frames, index).holdReference # Undefined
    THEN (IF Has(layer.frames, At(layer.frames, index).holdReference)
          THEN <<At(layer.frames, At(layer.frames, index).holdReference)>>
          ELSE <<>>)
    ELSE <<At(layer.frames, index)>>

\* frameToRender (3803-3817): <<the frame>>, or <<>> when it is undefined
FrameToRender(layer, index) ==
    IF layer.isBackground
    THEN (IF Has(layer.frames, 0) THEN <<At(layer.frames, 0)>> ELSE <<>>)
    ELSE IF ~Has(layer.frames, index) THEN <<>>
    ELSE IF At(layer.frames, index).holdReference # Undefined
    THEN (IF Has(layer.frames, At(layer.frames, index).holdReference)
          THEN <<At(layer.frames, At(layer.frames, index).holdReference)>>
          ELSE <<>>)
    ELSE <<At(layer.frames, index)>>

\* the path elements appended to the layer's group (3820-3826)
RenderedPaths(layer, index) ==
    IF FrameToRender(layer, index) = <<>> THEN <<>>
    ELSE FrameToRender(layer, index)[1].paths

\* what the compositor shows of each layer, bottom to top, with the playhead at
\* index (3794-3829): the group of an invisible layer has opacity 0
Composited(ls, index) ==
    [l \in 1..Len(ls) |->
        IF ls[l].visible THEN RenderedPaths(ls[l], index) ELSE <<>>]

\* the layers renderFrame reaches: layer.frames[...] throws a TypeError on the
\* first layer that has no frames array
Reached(ls) ==
    IF HaveFrames(ls) THEN Len(ls)
    ELSE MinOf({l \in 1..Len(ls) : "frames" \notin DOMAIN ls[l]}) - 1

\* the groups renderFrame (3794-3829) appends to the layers container, bottom
\* to top, with the playhead at index, and whether it ends with an error
renderFrame(ls, index) ==
    [error  |-> ~HaveFrames(ls),
     groups |-> [l \in 1..Reached(ls) |->
                    [id |-> ls[l].id,
                     opacity |-> IF ls[l].visible THEN 1 ELSE 0,
                     paths |-> RenderedPaths(ls[l], index)]]]

(***************************************************************************)
(* Shift constraint (3004-3045) on points with integer coordinates.  The   *)
(* aspect ratio min/max > 0.85 is compared in hundredths; the line branch  *)
(* returns the start point moved by the distance along the direction       *)
(* (ux, uy) of the nearest multiple of 45 degrees, which is the horizontal *)
(* when |dy| < tan(22.5) |dx|, that is when (|dx| + |dy|)^2 < 2 dx^2.      *)
(***************************************************************************)
Abs(n) == IF n < 0 THEN 0 - n ELSE n

Sign(n) == IF n > 0 THEN 1 ELSE IF n < 0 THEN 0 - 1 ELSE 0

\* a square of the smaller dimension
sizeOfSmaller(width, height) == IF width < height THEN width ELSE height

\* const size = Math.max(width, height) (3029)
size(width, height) == IF width > height THEN width ELSE height

applyShiftConstraint(startPoint, currentPoint, altPressed) ==
    LET dx == currentPoint.x - startPoint.x
        dy == currentPoint.y - startPoint.y
        width == Abs(dx)
        height == Abs(dy)
        smaller == IF width < height THEN width ELSE height
        larger  == IF width > height THEN width ELSE height
        isVerySquare == larger > 0 /\ 100 * smaller > SquarePercent * larger
        isLargeEnough == width > MinCircleSize /\ height > MinCircleSize
    IN  IF (isVerySquare /\ isLargeEnough) \/ altPressed
        THEN [mode |-> "circle",
              x |-> startPoint.x + (IF dx > 0 THEN size(width, height)
                                    ELSE 0 - size(width, height)),
              y |-> startPoint.y + (IF dy > 0 THEN size(width, height)
                                    ELSE 0 - size(width, height))]
        ELSE LET sum2 == (width + height) * (width + height)
             IN  [mode |-> "line",
                  ux |-> IF sum2 < 2 * dy * dy THEN 0 ELSE Sign(dx),
                  uy |-> IF sum2 < 2 * dx * dx THEN 0 ELSE Sign(dy),
                  distance2 |-> dx * dx + dy * dy]

(***************************************************************************)
(* Onion skin (3717-3791): the ghost groups renderFrame appends to the     *)
(* onion skin layer when onion skin is enabled, for the settings           *)
(* framesBefore and framesAfter.  A ghost group is the sequence of the     *)
(* strokes appended to it.                                                 *)
(***************************************************************************)
\* a ghost that shows background layers too
ghostOfAnyLayer(layer, frameIndex) ==
    IF layer.visible /\ Has(layer.frames, frameIndex)
    THEN At(layer.frames, frameIndex).paths
    ELSE <<>>

\* the strokes one layer adds to the ghost of frameIndex (3734-3750, 3768-3784)
ghostOfLayer(layer, frameIndex) ==
    IF layer.isBackground THEN <<>>
    ELSE IF layer.visible /\ Has(layer.frames, frameIndex)
    THEN At(layer.frames, frameIndex).paths
    ELSE <<>>

RECURSIVE ghostFrom(_, _, _)
\* state.layers.forEach from layer l on
ghostFrom(ls, frameIndex, l) ==
    IF l > Len(ls) THEN <<>>
    ELSE ghostOfLayer(ls[l], frameIndex) \o ghostFrom(ls, frameIndex, l + 1)

RECURSIVE prevGroups(_, _, _, _)
\* the loop over the previous frames (3723-3751) from i on
prevGroups(ls, index, framesBefore, i) ==
    IF i > framesBefore THEN <<>>
    ELSE IF index - i < 0 THEN <<>>
    ELSE <<ghostFrom(ls, index - i, 1)>> \o prevGroups(ls, index, framesBefore, i + 1)

RECURSIVE nextGroups(_, _, _, _, _)
\* the loop over the next frames (3757-3785) from i on
nextGroups(ls, index, maxF, framesAfter, i) ==
    IF i > framesAfter THEN <<>>
    ELSE IF index + i >= maxF THEN <<>>
    ELSE <<ghostFrom(ls, index + i, 1)>> \o nextGroups(ls, index, maxF, framesAfter, i + 1)

\* the strokes renderFrameToCanvas (4845-4874) draws of each layer, bottom to
\* top, for frame index frameIndex
renderFrameToCanvas(ls, frameIndex) ==
    [l \in 1..Len(ls) |->
        IF ~ls[l].visible \/ ~Has(ls[l].frames, frameIndex) THEN <<>>
        ELSE At(ls[l].frames, frameIndex).paths]

(***************************************************************************)
(* The editor: every handler, within the bounds.                           *)
(***************************************************************************)
LayerIds == 1..MaxLayerId
FrameIdx == 0..(MaxLen - 1)

CurLen == IF Found(layers, currentLayerId) THEN Len(At(layers, CurIdx).frames) ELSE 0

\* the frame a pointer-up would store the stroke in has room for it
RoomFor(n) ==
    LET i == IF Found(layers, currentLayerId) /\ At(layers, CurIdx).isBackground
             THEN 0 ELSE currentFrameIndex
    IN  Found(layers, currentLayerId) /\ Has(At(layers, CurIdx).frames, i)
            => Len(At(At(layers, CurIdx).frames, i).paths) < n

\* the hold count of frame i of the current layer is below n
HoldBelow(i, n) ==
    Found(layers, currentLayerId) /\ Has(At(layers, CurIdx).frames, i)
        => At(At(layers, CurIdx).frames, i).hold < n

(***************************************************************************)
(* Spec: the structure of the project: layers, frames, holds, playhead and *)
(* import, on frames without strokes.                                      *)
(***************************************************************************)
Next ==
    \/ Len(layers) < MaxLayers /\ layerIdCounter < MaxLayerId /\ addLayer /\ UNCHANGED log
    \/ (\E id \in LayerIds : deleteLayer(id)) /\ UNCHANGED log
    \/ deleteLayerConfirm /\ UNCHANGED log
    \/ (\E id \in LayerIds : selectLayer(id)) /\ UNCHANGED log
    \/ (\E id \in LayerIds, b \in BOOLEAN : toggleBackgroundLayer(id, b)) /\ UNCHANGED log
    \/ CurLen < MaxLen /\ addFrame /\ UNCHANGED log
    \/ CurLen < MaxLen /\ duplicateFrame /\ UNCHANGED log
    \/ /\ CurLen < MaxLen
       /\ \E i \in FrameIdx : HoldBelow(i, MaxHold) /\ addHoldFrame(i)
       /\ UNCHANGED log
    \/ (\E i \in FrameIdx : removeHoldFrame(i)) /\ UNCHANGED log
    \/ deleteFrame /\ UNCHANGED log
    \/ deleteFrameConfirm /\ UNCHANGED log
    \/ closeModal /\ UNCHANGED log
    \/ (\E i \in FrameIdx : selectFrame(i)) /\ UNCHANGED log
    \/ (\E file \in ImportFiles : importProject(file)) /\ UNCHANGED log

Spec == Init /\ [][Next]_vars

(***************************************************************************)
(* Claims checked under Spec.                                              *)
(***************************************************************************)
FrameCounts == {Len(layers[i].frames) : i \in 1..Len(layers)}

\* C1: in every reachable state maxFrames = max(1, max over all layers of
\* frames.length).
C1_MaxFramesDerived == maxFrames = MaxOf(FrameCounts \cup {1})

\* C10: after every mutating operation the playhead is in bounds,
\* 0 <= currentFrameIndex < maxFrames.
C10_PlayheadInBounds == 0 <= currentFrameIndex /\ currentFrameIndex < maxFrames

\* C11: in every reachable state currentLayerId is the id of a layer that is
\* present in state.layers.
C11_CurrentLayerExists == Found(layers, currentLayerId)

\* C12: in every reachable state every layer has at least one frame: no
\* sequence of deleteFrame, removeHoldFrame, toggleBackgroundLayer or import
\* leaves a layer with an empty frames array.
C12_LayersNonEmpty == \A l \in 1..Len(layers) : Len(layers[l].frames) >= 1

\* C31: layer ids are pairwise distinct in every reachable state: addLayer
\* creates an id that no existing layer uses, also after deleteLayer and after
\* the import of a project that exportProject has written.
C31_LayerIdsDistinct ==
    \A i, j \in 1..Len(layers) : i # j => layers[i].id # layers[j].id

\* C29: an import never applies in part: after the import of a file that is
\* rejected or fails, the project is either exactly the project before the
\* import or a complete default project, never layers and fps of the file
\* beside the currentLayerId and maxFrames of the project before.
C29_FailedImportIsAllOrNothing ==
    [][ (\E file \in ImportFiles : importProject(file)) /\ modal'.title = "Import Error"
          => \/ UNCHANGED <<layers, fps, currentLayerId, currentFrameIndex, maxFrames>>
             \/ /\ layers' = <<NewLayer(1)>>
                /\ fps' = DefaultFps
                /\ currentLayerId' = 1
                /\ currentFrameIndex' = 0
                /\ maxFrames' = 1 ]_vars

(***************************************************************************)
(* SpecHold: one layer, its frames and holds, on frames without strokes.   *)
(* log remembers the frames and maxFrames from before an addHoldFrame(i)   *)
(* until the step after it.                                                *)
(***************************************************************************)
HoldIdx == 0..(MaxHoldLen - 1)

\* a frame array as the program sees it: without the history fields
Strip(fr) ==
    [k \in 1..Len(fr) |->
        [paths |-> fr[k].paths, hold |-> fr[k].hold, holdReference |-> fr[k].holdReference]]

NoPair == [ids |-> FALSE, pair |-> "none", i |-> Undefined, pre |-> <<>>, preMax |-> 0]

InitHold == InitWith(NoPair)

NextHold ==
    \/ CurLen < MaxHoldLen /\ addFrame /\ log' = NoPair
    \/ CurLen < MaxHoldLen /\ duplicateFrame /\ log' = NoPair
    \/ /\ CurLen < MaxHoldLen
       /\ \E i \in HoldIdx :
              /\ HoldBelow(i, MaxHoldCount)
              /\ addHoldFrame(i)
              /\ log' = [ids |-> FALSE, pair |-> "added", i |-> i,
                         pre |-> Strip(At(layers, CurIdx).frames), preMax |-> maxFrames]
    \/ \E i \in HoldIdx :
           /\ removeHoldFrame(i)
           /\ log' = IF log.pair = "added" /\ log.i = i
                     THEN [log EXCEPT !.pair = "removed"] ELSE NoPair
    \/ deleteFrame /\ log' = NoPair
    \/ deleteFrameConfirm /\ log' = NoPair
    \/ closeModal /\ log' = NoPair
    \/ (\E i \in HoldIdx : selectFrame(i)) /\ log' = NoPair

SpecHold == InitHold /\ [][NextHold]_vars

(***************************************************************************)
(* Claims checked under SpecHold.                                          *)
(***************************************************************************)
\* C2: in every reachable state, every frame at index j with holdReference = r
\* has r a valid index of the same layer, r < j, and the frame at r has no
\* holdReference itself.
C2_HoldReferencesValid ==
    \A l \in 1..Len(layers) :
        \A j \in 0..(Len(layers[l].frames) - 1) :
            LET fr == layers[l].frames
                r  == At(fr, j).holdReference
            IN  r # Undefined =>
                    /\ Has(fr, r)
                    /\ r < j
                    /\ At(fr, r).holdReference = Undefined

\* C3: in every reachable state, for every non-hold frame at index s, its hold
\* count (0 when absent) is the number of frames whose holdReference is s, and
\* those frames are exactly the frames at s+1 .. s+count.
C3_HoldCountMatchesBlock ==
    \A l \in 1..Len(layers) :
        \A s \in 0..(Len(layers[l].frames) - 1) :
            LET fr    == layers[l].frames
                count == IF At(fr, s).hold = Undefined THEN 0 ELSE At(fr, s).hold
            IN  At(fr, s).holdReference = Undefined =>
                    {j \in 0..(Len(fr) - 1) : At(fr, j).holdReference = s}
                        = (s + 1)..(s + count)

\* C5: addHoldFrame(i) immediately followed by removeHoldFrame(i) leaves the
\* layer's frame array and maxFrames exactly as they were before the pair.
C5_AddThenRemoveHoldIsIdentity ==
    log.pair = "removed" =>
        /\ Strip(At(layers, CurIdx).frames) = log.pre
        /\ maxFrames = log.preMax

\* the hold count of a frame, 0 when the field is absent
HoldCount(frame) == IF frame.hold = Undefined THEN 0 ELSE frame.hold

\* C14: addHoldFrame(i) on a frame i of the current layer without holdReference
\* increases the frame's hold count by exactly 1 and inserts exactly one
\* frame, with empty strokes and holdReference = i, at index i + (new hold
\* count), which is immediately after the frame's existing hold block; every
\* other frame is kept, in order.
C14_AddHoldExtendsBlock ==
    [][\A i \in HoldIdx : addHoldFrame(i) =>
          LET fr  == At(layers, CurIdx).frames
              fr2 == At(layers', CurIdx).frames
              k   == HoldCount(At(fr, i))
          IN  /\ At(fr, i).holdReference = Undefined
              /\ HoldCount(At(fr2, i)) = k + 1
              /\ Len(fr2) = Len(fr) + 1
              /\ Has(fr2, i + k + 1)
              /\ At(fr2, i + k + 1).paths = <<>>
              /\ At(fr2, i + k + 1).holdReference = i
              /\ \A j \in (i + 1)..(i + k) : At(fr2, j).holdReference = i
              /\ Strip(SpliceOut(fr2, i + k + 1))
                     = Strip(SetAt(fr, i, [At(fr, i) EXCEPT !.hold = k + 1]))
       ]_vars

\* C15: for every frame i of the current layer, removeHoldFrame(i) on a hold
\* count k >= 1 removes exactly one frame, the highest-index frame whose
\* holdReference is i, and sets the count to k-1, deleting the field at 0;
\* without a positive hold count it changes nothing.
C15_RemoveHoldRemovesOne ==
    Found(layers, currentLayerId) =>
        \A i \in 0..(Len(At(layers, CurIdx).frames) - 1) :
            LET fr  == At(layers, CurIdx).frames
                k   == HoldCount(At(fr, i))
                fr2 == removeHold(fr, i)
                hits == {j \in 0..(Len(fr) - 1) : At(fr, j).holdReference = i}
            IN  IF k >= 1
                THEN /\ Len(fr2) = Len(fr) - 1
                     /\ hits # {}
                     /\ Strip(fr2) = Strip(SetAt(SpliceOut(fr, MaxOf(hits)), i,
                                        [At(fr, i) EXCEPT !.hold =
                                            IF k = 1 THEN Undefined ELSE k - 1]))
                ELSE fr2 = fr

(***************************************************************************)
(* SpecRender: one layer, its frames, holds and strokes.  The frames carry *)
(* their history fields fid and src.                                       *)
(***************************************************************************)
InitRender == InitWith([ids |-> TRUE])

NextRender ==
    \/ CurLen < MaxLen /\ addFrame /\ UNCHANGED log
    \/ CurLen < MaxLen /\ duplicateFrame /\ UNCHANGED log
    \/ /\ CurLen < MaxLen
       /\ \E i \in FrameIdx : HoldBelow(i, MaxHold) /\ addHoldFrame(i)
       /\ UNCHANGED log
    \/ (\E i \in FrameIdx : removeHoldFrame(i)) /\ UNCHANGED log
    \/ deleteFrame /\ UNCHANGED log
    \/ deleteFrameConfirm /\ UNCHANGED log
    \/ closeModal /\ UNCHANGED log
    \/ (\E i \in FrameIdx : selectFrame(i)) /\ UNCHANGED log
    \/ Len(undoStack) < MaxHistory /\ RoomFor(MaxPaths) /\ startDrawing /\ UNCHANGED log
    \/ (\E pathData \in PathData : draw(pathData)) /\ UNCHANGED log
    \/ stopDrawing /\ UNCHANGED log

SpecRender == InitRender /\ [][NextRender]_vars

(***************************************************************************)
(* Claims checked under SpecRender.                                        *)
(***************************************************************************)
\* C4: for a non-background layer, whenever the playhead is on a hold frame
\* created by addHoldFrame, the strokes renderFrame draws for the layer are the
\* current strokes of the frame the hold was added to.
C4_HoldRendersSource ==
    \A l \in 1..Len(layers) :
        LET layer == layers[l]
            fr    == layer.frames
        IN  (/\ ~layer.isBackground
             /\ Has(fr, currentFrameIndex)
             /\ At(fr, currentFrameIndex).holdReference # Undefined
             /\ At(fr, currentFrameIndex).src # 0)
            => \A s \in 0..(Len(fr) - 1) :
                   (/\ At(fr, s).fid = At(fr, currentFrameIndex).src
                    /\ At(fr, s).holdReference = Undefined)
                   => RenderedPaths(layer, currentFrameIndex) = At(fr, s).paths

\* C21: for every frame index i in 0..maxFrames-1 the export renderer draws
\* the same strokes of the same layers as the compositor shows with the
\* playhead at i: a background layer gives its frame 0, a hold frame the
\* strokes of its source frame.
C21_ExportMatchesScreen ==
    \A i \in 0..(maxFrames - 1) :
        renderFrameToCanvas(layers, i) = Composited(layers, i)

\* C19: in every reachable state a frame with holdReference set has an empty
\* stroke list: a stroke or a clear made with the playhead on a hold frame
\* stores no strokes in that hold frame.
C19_HoldFramesHaveNoStrokes ==
    \A l \in 1..Len(layers) :
        \A j \in 1..Len(layers[l].frames) :
            layers[l].frames[j].holdReference # Undefined
                => layers[l].frames[j].paths = <<>>

\* C35: every stroke stored in a frame has defined path data: a pointer-down
\* followed by a pointer-up with no admitted move commits a single-point path
\* at the start point, never a stroke whose path data is null.
C35_StoredStrokesHavePathData ==
    \A l \in 1..Len(layers) :
        \A f \in 1..Len(layers[l].frames) :
            \A k \in 1..Len(layers[l].frames[f].paths) :
                layers[l].frames[f].paths[k].d # Undefined

(***************************************************************************)
(* SpecPlay: playback on a timeline that can grow.  log keeps the time     *)
(* since the playhead last advanced (since, counted up to the longest      *)
(* frame interval), whether an advance came earlier than the frame         *)
(* interval of the run that made it (early), whether the current run was   *)
(* started while another one was playing (restarted), and whether the last *)
(* stop found a scheduled callback (stopped).  It also keeps the playhead  *)
(* values of the advances made in a row since the timeline or the playhead *)
(* was last changed by hand (seen, at most maxFrames of them) and the      *)
(* playhead before the first of them (start), whether the play button or  *)
(* the space bar has been pressed an odd number of times (odd), and        *)
(* whether a press has found playback stopped and maxFrames <= 1 (refused).*)
(***************************************************************************)
MaxDelay == MaxOf({FrameDelay(f) : f \in FpsChoices})

InitPlay ==
    InitWith([ids |-> FALSE, since |-> MaxDelay, early |-> FALSE,
              restarted |-> FALSE, stopped |-> FALSE,
              start |-> Undefined, seen |-> <<>>,
              odd |-> FALSE, refused |-> FALSE])

\* log after a handler that stops playback, or starts it when it is stopped
Stopping ==
    IF isPlaying
    THEN [log EXCEPT !.restarted = FALSE, !.stopped = rafQueue # {}]
    ELSE [log EXCEPT !.stopped = FALSE]

\* log after a press of the play button or the space bar
Pressed ==
    [Stopping EXCEPT !.odd = ~@,
                     !.refused = @ \/ (~isPlaying /\ maxFrames <= 1)]

\* log after a handler that changes the timeline or moves the playhead
Edited == [log EXCEPT !.start = Undefined, !.seen = <<>>]

\* the callback cb, when run, advances the playhead (4213-4246)
Advances(cb) ==
    /\ isPlaying /\ playIcon = "stop"
    /\ cb.iterationCount + 1 <= MAX_ITERATIONS
    /\ cb.elapsed >= cb.frameDelay

\* log after the callback cb has run
Ticked(cb) ==
    LET timed == IF currentFrameIndex' # currentFrameIndex
                 THEN [log EXCEPT !.since = 0,
                                  !.early = @ \/ log.since < cb.frameDelay]
                 ELSE log
        first == log.seen = <<>> \/ Len(log.seen) >= maxFrames
    IN  IF Advances(cb)
        THEN [timed EXCEPT !.start = IF first THEN currentFrameIndex ELSE @,
                           !.seen = IF first THEN <<currentFrameIndex'>>
                                    ELSE Append(@, currentFrameIndex')]
        ELSE timed

NextPlay ==
    \/ togglePlayback /\ log' = Pressed
    \/ escapeKey /\ log' = Stopping
    \/ \E f \in FpsChoices :
           /\ fpsChange(f)
           /\ log' = IF isPlaying THEN [log EXCEPT !.restarted = TRUE] ELSE log
    \/ /\ timePasses(TimeStep)
       /\ log' = [log EXCEPT !.since = IF @ + TimeStep > MaxDelay
                                       THEN MaxDelay ELSE @ + TimeStep]
    \/ \E cb \in rafQueue :
           /\ cb.iterationCount < MaxIterations
           /\ playbackLoop(cb)
           /\ log' = Ticked(cb)
    \/ CurLen < MaxLen /\ addFrame /\ log' = Edited
    \/ deleteFrame /\ UNCHANGED log
    \/ deleteFrameConfirm /\ log' = Edited
    \/ closeModal /\ UNCHANGED log
    \/ (\E i \in FrameIdx : selectFrame(i)) /\ log' = Edited

SpecPlay == InitPlay /\ [][NextPlay]_vars

(***************************************************************************)
(* Claims checked under SpecPlay.                                          *)
(***************************************************************************)
\* C6: after any interleaving of start, stop, toggle and fps-change events at
\* most one playback callback is scheduled, and the playhead never advances
\* earlier than one frame interval after its previous advance.
C6_SingleTickChain == Cardinality(rafQueue) <= 1 /\ ~log.early

\* a run started by the fps selector while another run was playing has ticked,
\* and one callback is scheduled
C6_RestartedWhilePlaying ==
    /\ isPlaying
    /\ log.restarted
    /\ \E cb \in rafQueue : cb.iterationCount > 0
    /\ Cardinality(rafQueue) = 1

C22_AdvancesCycleThroughFrames ==
    /\ \A k \in 1..Len(log.seen) : log.seen[k] = (log.start + k) % maxFrames
    /\ Len(log.seen) = maxFrames /\ 0 <= log.start /\ log.start < maxFrames
           => /\ {log.seen[k] : k \in 1..Len(log.seen)} = 0..(maxFrames - 1)
              /\ currentFrameIndex = log.start

\* three advances in a row on a timeline of three frames
C22_FullCycleOfThree ==
    /\ maxFrames = 3
    /\ Len(log.seen) = 3
    /\ isPlaying

\* C23: togglePlayback from Stopped, and so startPlayback, when maxFrames <= 1
\* does nothing to the scheduler: isPlaying stays false, no callback is
\* scheduled, the button keeps the play icon and currentFrameIndex is
\* unchanged.
C23_StartRefusedOnOneFrame ==
    [][togglePlayback /\ ~isPlaying /\ maxFrames <= 1
          => /\ ~isPlaying'
             /\ rafQueue' = {} /\ playInterval' = NoHandle
             /\ playIcon' = "play"
             /\ UNCHANGED <<currentFrameIndex, maxFrames, layers, intervals>>]_vars

\* the play button has been pressed on a stopped timeline of one frame, which
\* is still stopped
C23_PressedOnOneFrame ==
    /\ log.refused /\ log.odd
    /\ maxFrames = 1
    /\ ~isPlaying

\* C24: stopPlayback is idempotent: in every state where playback is stopped,
\* as it is after a stopPlayback, a call of stopPlayback changes nothing:
\* isPlaying stays false, no callback is scheduled, and the playhead, the
\* timeline, the timers and the panels are as they were.
C24_StopWhileStoppedChangesNothing ==
    ~isPlaying => /\ rafQueue = {} /\ playInterval = NoHandle
                  /\ ~ENABLED (stopPlayback /\ UNCHANGED log /\ vars' # vars)

\* playback has been stopped with a callback scheduled, after the playhead
\* had advanced, and the timers are cleared
C24_StoppedAfterAdvance ==
    /\ ~isPlaying
    /\ log.stopped
    /\ log.seen # <<>>
    /\ intervals = {}

\* C32: the project keeps being saved periodically for the whole session:
\* after any sequence of operations, starting and stopping playback included,
\* the autosave timer registered at initialization is still scheduled.
C32_AutosaveStaysScheduled == "autosave" \in intervals

(***************************************************************************)
(* SpecUndo: strokes, undo and redo on one layer.  log follows a run of n  *)
(* stroke commits (phase "commit"), the undos after it (phase "undo", u of *)
(* them, mark being the frames when the first undo began) and the redos    *)
(* after those (phase "redo", r of them); any other step ends the run, and *)
(* a new run starts with the next commit.  The undo and redo shortcuts are *)
(* not pressed while a stroke is in progress.  cleared keeps the kinds of  *)
(* edit, a stroke commit or a clear of the frame, that have found entries  *)
(* on the redo stack.                                                      *)
(***************************************************************************)
UndoIdx == 0..(MaxUndoLen - 1)

\* the frame contents of every layer
Contents(ls) == [l \in 1..Len(ls) |-> Strip(ls[l].frames)]

NoRun == [ids |-> FALSE, phase |-> "edit", n |-> 0, u |-> 0, r |-> 0, mark |-> <<>>,
          cleared |-> {}]

\* the history h with the edits that found entries on the redo stack kept
Keep(h) == [h EXCEPT !.cleared = log.cleared]

\* the history h after an edit of the given kind
NewEdit(h, kind) ==
    [h EXCEPT !.cleared = IF redoStack # <<>> THEN log.cleared \cup {kind} ELSE log.cleared]

InitUndo == InitWith(NoRun)

NextUndo ==
    \/ CurLen < MaxUndoLen /\ addFrame /\ log' = Keep(NoRun)
    \/ (\E id \in LayerIds, b \in BOOLEAN : toggleBackgroundLayer(id, b)) /\ log' = Keep(NoRun)
    \/ (\E i \in UndoIdx : selectFrame(i))
           /\ log' = IF log.phase \in {"edit", "commit"} THEN log ELSE Keep(NoRun)
    \/ /\ Len(undoStack) < MaxUndo /\ RoomFor(MaxUndoPaths)
       /\ startDrawing
       /\ log' = IF log.phase \in {"edit", "commit"} THEN log ELSE Keep(NoRun)
    \/ (\E pathData \in PathData : draw(pathData)) /\ UNCHANGED log
    \/ /\ stopDrawing
       /\ log' = IF layers' = layers THEN log
                 ELSE IF log.phase \in {"edit", "commit"}
                 THEN NewEdit([log EXCEPT !.phase = "commit", !.n = @ + 1], "stroke")
                 ELSE NewEdit([NoRun EXCEPT !.phase = "commit", !.n = 1], "stroke")
    \/ /\ Len(undoStack) < MaxUndo
       /\ clearCurrentFrame
       /\ log' = NewEdit(NoRun, "clear")
    \/ /\ ~isDrawing /\ undo
       /\ log' = IF log.phase = "commit"
                 THEN [log EXCEPT !.phase = "undo", !.u = 1, !.mark = Contents(layers)]
                 ELSE IF log.phase = "undo" /\ log.u < log.n
                 THEN [log EXCEPT !.u = @ + 1]
                 ELSE Keep(NoRun)
    \/ /\ ~isDrawing /\ redo
       /\ log' = IF log.phase = "undo" /\ log.u = log.n
                 THEN [log EXCEPT !.phase = "redo", !.r = 1]
                 ELSE IF log.phase = "redo" /\ log.r < log.n
                 THEN [log EXCEPT !.r = @ + 1]
                 ELSE Keep(NoRun)

SpecUndo == InitUndo /\ [][NextUndo]_vars

(***************************************************************************)
(* Claims checked under SpecUndo.                                          *)
(***************************************************************************)
\* C8: after n stroke commits with no other edit in between, n undos followed
\* by n redos leave every frame with the contents it had after the n commits.
C8_UndosThenRedosRestore ==
    (log.phase = "redo" /\ log.r = log.n) => Contents(layers) = log.mark

\* two commits, two undos that removed strokes, and two redos
C8_TwoCommitsUndoneAndRedone ==
    /\ log.phase = "redo"
    /\ log.n = 2
    /\ log.r = 2
    /\ \E f \in 1..Len(layers[1].frames) : Len(layers[1].frames[f].paths) > 0

\* C9: when redo pops an entry for (layer L, frame f) and restores it, the entry
\* it pushes onto the undo stack has layerId = L, frameIndex = f and the
\* contents frame f of L had just before the redo.
C9_RedoPushesPoppedCoordinates ==
    [][redo =>
          LET nextState == redoStack[Len(redoStack)]
              li == FindIndex(layers, nextState.layerId)
          IN  (li # Undefined /\ Has(At(layers, li).frames, nextState.frameIndex))
                  => /\ Len(undoStack') > 0
                     /\ undoStack'[Len(undoStack')] =
                            [layerId |-> nextState.layerId,
                             frameIndex |-> nextState.frameIndex,
                             frameState |-> At(At(layers, li).frames,
                                               nextState.frameIndex)]]_vars

\* C28: every new authoring action empties the redo stack: after a stroke
\* commit (pointer-up) or a confirmed clearCurrentFrame the redo stack is
\* empty, so that a redo pressed after a new edit changes nothing.
C28_NewEditEmptiesRedo ==
    /\ [][ (stopDrawing /\ layers' # layers) \/ clearCurrentFrame
              => redoStack' = <<>> ]_vars
    /\ [](redoStack = <<>> => ~ENABLED (redo /\ UNCHANGED log /\ vars' # vars))

\* a stroke commit and a clear have each found entries on the redo stack, and
\* the redo stack is empty
C28_RedoEntriesDropped ==
    /\ log.cleared = {"stroke", "clear"}
    /\ redoStack = <<>>
    /\ ~isDrawing

(***************************************************************************)
(* SpecEdit: two layers of frames with strokes: layers and frames are      *)
(* added, selected and deleted, frames are cleared, and the undo shortcut  *)
(* is pressed, also while a dialog is open.  A stroke is a pointer-down    *)
(* and pointer-up without a pointer move in between.                       *)
(***************************************************************************)
InitEdit == InitWith([ids |-> FALSE])

NextEdit ==
    \/ Len(layers) < MaxLayers /\ layerIdCounter < MaxLayerId /\ addLayer /\ UNCHANGED log
    \/ (\E id \in LayerIds : selectLayer(id)) /\ UNCHANGED log
    \/ (\E id \in LayerIds : deleteLayer(id)) /\ UNCHANGED log
    \/ deleteLayerConfirm /\ UNCHANGED log
    \/ (\E id \in LayerIds, b \in BOOLEAN : toggleBackgroundLayer(id, b)) /\ UNCHANGED log
    \/ CurLen < MaxLen /\ addFrame /\ UNCHANGED log
    \/ CurLen < MaxLen /\ duplicateFrame /\ UNCHANGED log
    \/ deleteFrame /\ UNCHANGED log
    \/ deleteFrameConfirm /\ UNCHANGED log
    \/ closeModal /\ UNCHANGED log
    \/ (\E i \in FrameIdx : selectFrame(i)) /\ UNCHANGED log
    \/ Len(undoStack) < MaxHistory /\ RoomFor(MaxPaths) /\ startDrawing /\ UNCHANGED log
    \/ stopDrawing /\ UNCHANGED log
    \/ Len(undoStack) < MaxHistory /\ clearCurrentFrame /\ UNCHANGED log
    \/ ~isDrawing /\ undo /\ UNCHANGED log

SpecEdit == InitEdit /\ [][NextEdit]_vars

(***************************************************************************)
(* Claims checked under SpecEdit.                                          *)
(***************************************************************************)
\* the current layer has a single frame, or no frame at the playhead
NothingToDelete ==
    \/ ~Found(layers, currentLayerId)
    \/ Len(At(layers, CurIdx).frames) = 1
    \/ ~Has(At(layers, CurIdx).frames, currentFrameIndex)

\* C13: deleteFrame on a layer with exactly one frame, or with no frame at the
\* playhead, is rejected with an Error alert and changes none of layers,
\* currentLayerId, currentFrameIndex, maxFrames and the undo and redo stacks;
\* the Delete Frame dialog only opens otherwise; the Delete Layer dialog only
\* opens on a project with more than one layer, and the step that closes it
\* leaves at least one layer.
C13_RejectedDeletesChangeNothing ==
    [][ /\ deleteFrame /\ NothingToDelete
            => /\ modal'.kind = "alert" /\ modal'.title = "Error"
               /\ UNCHANGED <<layers, currentLayerId, currentFrameIndex, maxFrames,
                              undoStack, redoStack>>
        /\ modal.kind = "none" /\ modal'.title = "Error"
            => /\ NothingToDelete
               /\ UNCHANGED <<layers, currentLayerId, currentFrameIndex, maxFrames,
                              undoStack, redoStack>>
        /\ modal.kind = "none" /\ modal'.kind = "deleteFrame" => ~NothingToDelete
        /\ modal.kind = "none" /\ modal'.kind = "deleteLayer"
            => Len(layers) > 1 /\ UNCHANGED <<layers, currentLayerId>>
        /\ modal.kind = "deleteLayer" => Len(layers') >= 1 ]_vars

\* a project that is down to one layer again, with a single frame and a stroke
\* that can be undone, showing the Error alert of a rejected deleteFrame
C13_OnlyFrameOfOnlyLayerKept ==
    /\ modal.kind = "alert" /\ modal.title = "Error"
    /\ layerIdCounter = 2 /\ Len(layers) = 1
    /\ Len(layers[1].frames) = 1
    /\ Len(undoStack) = 1 /\ layers[1].frames[1].paths # <<>>

\* maxFrames as updateMaxFrames leaves it for the layers ls
MaxFramesOf(ls) == MaxOf({Len(ls[l].frames) : l \in 1..Len(ls)} \cup {1})

\* every layer but the one at index li is the same in ls and ls2, and that one
\* differs in its frames at most
OnlyFramesOf(li, ls, ls2) ==
    /\ Len(ls2) = Len(ls)
    /\ \A l \in 1..Len(ls) :
           IF l = li + 1
           THEN [ls2[l] EXCEPT !.frames = <<>>] = [ls[l] EXCEPT !.frames = <<>>]
           ELSE ls2[l] = ls[l]

\* C16: addFrame with the playhead at p inserts exactly one frame without
\* strokes right after index p when p+1 <= the layer's length and appends it
\* otherwise; currentFrameIndex becomes the index of the new frame, the length
\* grows by 1, the frames that were there keep contents and order, the other
\* layers are unchanged and maxFrames is recomputed.
C16_AddFrameInsertsAfterPlayhead ==
    [][addFrame =>
          LET fr  == At(layers, CurIdx).frames
              fr2 == At(layers', CurIdx).frames
              n   == IF currentFrameIndex + 1 <= Len(fr)
                     THEN currentFrameIndex + 1 ELSE Len(fr)
          IN  /\ Len(fr2) = Len(fr) + 1
              /\ currentFrameIndex' = n
              /\ Strip(<<At(fr2, n)>>) = Strip(<<NewFrame>>)
              /\ SpliceOut(fr2, n) = fr
              /\ OnlyFramesOf(CurIdx, layers, layers')
              /\ currentLayerId' = currentLayerId
              /\ maxFrames' = MaxFramesOf(layers')
       ]_vars

\* the second of two layers has a new frame without strokes at the playhead,
\* between two frames with a stroke
C16_NewFrameBetweenStrokes ==
    /\ Len(layers) = 2 /\ currentLayerId = layers[2].id
    /\ Len(layers[2].frames) = 3 /\ currentFrameIndex = 1
    /\ layers[2].frames[1].paths # <<>>
    /\ layers[2].frames[2].paths = <<>>
    /\ layers[2].frames[3].paths # <<>>

\* the positions of the frames of ls whose strokes are not the same in ls2
ChangedFrames(ls, ls2) ==
    {pos \in (1..Len(ls)) \X (1..MaxLen) :
        /\ pos[2] <= Len(ls[pos[1]].frames)
        /\ \/ pos[1] > Len(ls2)
           \/ pos[2] > Len(ls2[pos[1]].frames)
           \/ ls2[pos[1]].frames[pos[2]].paths # ls[pos[1]].frames[pos[2]].paths}

\* C17: duplicateFrame with the playhead on a frame p of the current layer
\* inserts at p+1 a frame whose strokes equal those of frame p and moves the
\* playhead to p+1, every other frame and layer staying as it was; the two
\* frames share no state: a commit of a stroke, a clear and an undo change
\* the strokes of one frame at most.
C17_DuplicateIsDeepCopy ==
    [][ /\ duplicateFrame =>
              LET fr  == At(layers, CurIdx).frames
                  fr2 == At(layers', CurIdx).frames
                  p   == currentFrameIndex
              IN  /\ currentFrameIndex' = p + 1
                  /\ Len(fr2) = Len(fr) + 1
                  /\ At(fr2, p + 1).paths = At(fr, p).paths
                  /\ Strip(SpliceOut(fr2, p + 1)) = Strip(fr)
                  /\ OnlyFramesOf(CurIdx, layers, layers')
        /\ stopDrawing \/ clearCurrentFrame \/ undo
              => Cardinality(ChangedFrames(layers, layers')) <= 1
      ]_vars

\* the playhead is on the duplicate of a frame with a stroke
C17_DuplicateOfStroke ==
    /\ Found(layers, currentLayerId)
    /\ Len(At(layers, CurIdx).frames) = 2 /\ currentFrameIndex = 1
    /\ At(At(layers, CurIdx).frames, 0).paths # <<>>
    /\ At(At(layers, CurIdx).frames, 1).paths = At(At(layers, CurIdx).frames, 0).paths
    /\ undoStack # <<>>

\* C18: the confirm callback of deleteFrame removes exactly the frame at the
\* playhead from the layer the dialog was opened for: the layer's length
\* decreases by 1, the remaining frames keep contents and order, the frames of
\* every other layer are unchanged, currentFrameIndex is at most the layer's
\* new last index and maxFrames is recomputed.
C18_ConfirmedDeleteRemovesFrame ==
    [][deleteFrameConfirm =>
          LET fr  == At(layers, modal.layer).frames
              fr2 == At(layers', modal.layer).frames
          IN  /\ Has(fr, currentFrameIndex)
              /\ Len(fr2) = Len(fr) - 1
              /\ fr2 = SpliceOut(fr, currentFrameIndex)
              /\ OnlyFramesOf(modal.layer, layers, layers')
              /\ currentFrameIndex' <= Len(fr2) - 1
              /\ maxFrames' = MaxFramesOf(layers')
       ]_vars

\* C20: for a layer with isBackground = true the compositor draws the strokes
\* of the layer's frame 0 at every playhead value from 0 to maxFrames-1,
\* whatever the number of frames of the layer.
C20_BackgroundDrawsFrameZero ==
    \A l \in 1..Len(layers) :
        layers[l].isBackground =>
            \A index \in 0..(maxFrames - 1) :
                /\ Has(layers[l].frames, 0)
                /\ RenderedPaths(layers[l], index) = At(layers[l].frames, 0).paths

\* the playhead is past the only frame of a background layer, which has a stroke
C20_PlayheadPastBackground ==
    \E l \in 1..Len(layers) :
        /\ layers[l].isBackground
        /\ Len(layers[l].frames) = 1
        /\ layers[l].frames[1].paths # <<>>
        /\ currentFrameIndex >= 1 /\ maxFrames = MaxLen

\* C38: for every stroke, the (layer, frame) that receives the stroke at
\* pointer-up is the (layer, frame) whose snapshot was pushed on the undo stack
\* at pointer-down, so that one undo right after the commit removes exactly
\* that stroke; this holds for background layers, which draw into frame 0
\* whatever the playhead is.
C38_StrokeLandsOnSnapshotFrame ==
    [][ stopDrawing /\ layers' # layers =>
            /\ undoStack # <<>>
            /\ LET top == undoStack[Len(undoStack)]
                   li  == FindIndex(layers, top.layerId)
               IN  /\ li # Undefined
                   /\ Has(At(layers, li).frames, top.frameIndex)
                   /\ Has(At(layers', li).frames, top.frameIndex)
                   /\ At(At(layers', li).frames, top.frameIndex).paths
                          # At(At(layers, li).frames, top.frameIndex).paths
                   /\ restored(layers', li, top.frameIndex, top.frameState) = layers ]_vars

\* C26: undo with a non-empty undo stack whose top (L, f, snapshot) targets an
\* existing frame pops that entry, pushes onto the redo stack a copy of frame
\* f of L as it was just before, replaces frame f of L with the snapshot and
\* sets currentLayerId = L and currentFrameIndex = f; no other frame and no
\* other layer changes.  With an empty undo stack undo changes nothing.
C26_UndoRestoresSnapshot ==
    /\ [][ undo =>
              LET top == undoStack[Len(undoStack)]
                  li  == FindIndex(layers, top.layerId)
              IN  (li # Undefined /\ Has(At(layers, li).frames, top.frameIndex))
                      => /\ undoStack' = SubSeq(undoStack, 1, Len(undoStack) - 1)
                         /\ redoStack' = Append(redoStack,
                                [layerId |-> top.layerId, frameIndex |-> top.frameIndex,
                                 frameState |-> [At(At(layers, li).frames, top.frameIndex)
                                                     EXCEPT !.ref = 0]])
                         /\ OnlyFramesOf(li, layers, layers')
                         /\ Len(At(layers', li).frames) = Len(At(layers, li).frames)
                         /\ \A j \in 0..(Len(At(layers, li).frames) - 1) :
                                At(At(layers', li).frames, j) =
                                    IF j = top.frameIndex THEN top.frameState
                                    ELSE At(At(layers, li).frames, j)
                         /\ currentLayerId' = top.layerId
                         /\ currentFrameIndex' = top.frameIndex ]_vars
    /\ [](undoStack = <<>> => ~ENABLED (undo /\ UNCHANGED log /\ vars' # vars))

\* an undo has put back the empty snapshot of a frame of a two-frame layer of
\* a two-layer project and moved the stroke it removed to the redo stack
C26_StrokeUndoneBesideOtherFrames ==
    /\ Len(redoStack) = 1
    /\ undoStack = <<>>
    /\ Len(layers) = 2
    /\ redoStack[1].frameState.paths # <<>>
    /\ currentLayerId = redoStack[1].layerId
    /\ currentFrameIndex = redoStack[1].frameIndex
    /\ Len(At(layers, CurIdx).frames) >= 2
    /\ At(At(layers, CurIdx).frames, currentFrameIndex).paths = <<>>
    /\ \E j \in 0..(Len(At(layers, CurIdx).frames) - 1) :
           At(At(layers, CurIdx).frames, j).paths # <<>>

(***************************************************************************)
(* SpecRun: playback left to itself on a timeline of up to MaxRunLen       *)
(* frames: the play button, the clock and the scheduled callbacks, which   *)
(* the browser keeps running (weak fairness of playbackLoop).  log tells   *)
(* whether the last stop was forced by the iteration limit.                *)
(***************************************************************************)
InitRun == InitWith([ids |-> FALSE, forced |-> FALSE])

\* the browser runs a scheduled callback
Tick ==
    \E cb \in rafQueue :
        /\ playbackLoop(cb)
        /\ log' = [log EXCEPT !.forced =
                       @ \/ (isPlaying /\ cb.iterationCount + 1 > MAX_ITERATIONS)]

NextRun ==
    \/ CurLen < MaxRunLen /\ addFrame /\ UNCHANGED log
    \/ togglePlayback /\ log' = [log EXCEPT !.forced = FALSE]
    \/ timePasses(TimeStep) /\ UNCHANGED log
    \/ Tick

SpecRun == InitRun /\ [][NextRun]_vars /\ WF_vars(Tick)

(***************************************************************************)
(* Claims checked under SpecRun.                                           *)
(***************************************************************************)
\* C25: a playback run cannot tick forever: no callback of a run is scheduled
\* after more than MAX_ITERATIONS of them have run, and from Playing the
\* scheduler always eventually reaches Stopped, with or without a user stop.
C25_PlaybackEventuallyStops ==
    /\ [](\A cb \in rafQueue : cb.iterationCount <= MAX_ITERATIONS)
    /\ (isPlaying ~> ~isPlaying)

\* a run has been stopped by the iteration limit
C25_ForcedStop ==
    /\ log.forced
    /\ ~isPlaying
    /\ rafQueue = {}

(***************************************************************************)
(* SpecCap: one frame that fills with strokes, each drawn with a pointer   *)
(* move, and is cleared when it holds MaxCapPaths of them; undo and redo   *)
(* are pressed between strokes.  The snapshots on the undo stack differ in *)
(* their number of strokes.                                                *)
(***************************************************************************)
InitCap == InitWith([ids |-> FALSE])

NextCap ==
    \/ RoomFor(MaxCapPaths) /\ startDrawing /\ UNCHANGED log
    \/ (\E pathData \in PathData : draw(pathData)) /\ UNCHANGED log
    \/ currentPath # <<>> /\ currentPath[1].d # Undefined /\ stopDrawing /\ UNCHANGED log
    \/ ~RoomFor(MaxCapPaths) /\ clearCurrentFrame /\ UNCHANGED log
    \/ ~isDrawing /\ undo /\ UNCHANGED log
    \/ ~isDrawing /\ redo /\ UNCHANGED log

SpecCap == InitCap /\ [][NextCap]_vars

(***************************************************************************)
(* Claims checked under SpecCap.                                           *)
(***************************************************************************)
\* the entry saveStateForUndo pushes in the current state
Snapshot ==
    [layerId |-> currentLayerId, frameIndex |-> currentFrameIndex,
     frameState |-> [At(At(layers, CurIdx).frames, currentFrameIndex) EXCEPT !.ref = 0]]

\* C27: the undo stack never holds more than 50 entries: a snapshot pushed
\* onto a stack of 50 entries discards the oldest entry and keeps the 50
\* newest in order.
C27_UndoStackCapped ==
    /\ [](Len(undoStack) <= UndoCap)
    /\ [][ (startDrawing \/ clearCurrentFrame) /\ Len(undoStack) = UndoCap
              => undoStack' = Append(Tail(undoStack), Snapshot) ]_vars

\* the stack is full and the snapshot of the empty frame, the first one pushed,
\* is no longer on it
C27_OldestSnapshotDiscarded ==
    /\ Len(undoStack) = UndoCap
    /\ undoStack[1].frameState.paths # <<>>
    /\ Len(undoStack[UndoCap].frameState.paths) = UndoCap

(***************************************************************************)
(* SpecLoad: the page starts with an item of StoredData in local storage,  *)
(* loads it, and the project is edited afterwards unless a layer is left   *)
(* without frames; a file with such a layer is imported.  log keeps the stored item and whether it has     *)
(* been loaded ("loaded") and the project edited since ("edited").         *)
(***************************************************************************)
InitLoad == \E data \in StoredData : InitWith([ids |-> FALSE, stored |-> data, phase |-> "stored"])

AfterEdit == [log EXCEPT !.phase = "edited"]

NextLoad ==
    \/ /\ log.phase = "stored"
       /\ loadFromLocalStorage(log.stored)
       /\ log' = [log EXCEPT !.phase = "loaded"]
    \/ /\ log.phase # "stored" /\ HaveFrames(layers)
       /\ Len(layers) < MaxLayers /\ layerIdCounter < MaxLayerId
       /\ addLayer
       /\ log' = AfterEdit
    \/ /\ log.phase # "stored" /\ HaveFrames(layers)
       /\ \E id \in LayerIds : selectLayer(id)
       /\ log' = AfterEdit
    \/ /\ log.phase # "stored" /\ HaveFrames(layers)
       /\ CurLen < MaxLen
       /\ addFrame
       /\ log' = AfterEdit
    \/ /\ log.phase # "stored" /\ HaveFrames(layers)
       /\ \E i \in FrameIdx : selectFrame(i)
       /\ log' = AfterEdit
    \/ /\ log.phase # "stored" /\ HaveFrames(layers)
       /\ \E id \in LayerIds : toggleLayerVisibility(id)
       /\ log' = AfterEdit
    \/ /\ log.phase # "stored"
       /\ \E file \in BrokenFiles : importProject(file)
       /\ log' = AfterEdit
    \/ closeModal /\ UNCHANGED log

SpecLoad == InitLoad /\ [][NextLoad]_vars

(***************************************************************************)
(* Claims checked under SpecLoad.                                          *)
(***************************************************************************)
\* the stored item cannot be parsed, has a version that is not accepted, has
\* no layers, or has a layer without frames
Malformed(data) ==
    \/ ~data.parses
    \/ data.version \notin AcceptedVersions
    \/ "layers" \notin DOMAIN data
    \/ Len(data.layers) = 0
    \/ ~HaveFrames(data.layers)

\* C30: loadFromLocalStorage with stored data whose version is not 4.0, 4.1
\* or 4.2, whose layers are missing or lack frames, or that cannot be parsed,
\* resets to the default project: one visible layer 'layer-1' holding one
\* empty frame, currentLayerId = 'layer-1', currentFrameIndex = 0,
\* maxFrames = 1, layerIdCounter = 1, nothing of the stored layers applied.
C30_MalformedStoredDataResets ==
    (log.phase = "loaded" /\ log.stored.present /\ Malformed(log.stored))
        => /\ layers = <<NewLayer(1)>>
           /\ currentLayerId = 1
           /\ currentFrameIndex = 0
           /\ maxFrames = 1
           /\ layerIdCounter = 1

\* C33: renderFrame produces exactly one group per layer, in the order of
\* state.layers; the group of an invisible layer is there with opacity 0; and
\* a layer without a frame at the resolved index yields an empty group and no
\* error, in every reachable state.
C33_OneGroupPerLayer ==
    LET r == renderFrame(layers, currentFrameIndex)
    IN  /\ ~r.error
        /\ Len(r.groups) = Len(layers)
        /\ \A l \in 1..Len(layers) :
               /\ r.groups[l].id = layers[l].id
               /\ ~layers[l].visible => r.groups[l].opacity = 0
               /\ FrameToRender(layers[l], currentFrameIndex) = <<>>
                      => r.groups[l].paths = <<>>

(***************************************************************************)
(* SpecOnion: two layers that are made background and invisible, with      *)
(* frames and strokes: what the onion skin shows around the playhead.      *)
(***************************************************************************)
InitOnion == InitWith([ids |-> FALSE])

NextOnion ==
    \/ Len(layers) < MaxLayers /\ layerIdCounter < MaxLayerId /\ addLayer /\ UNCHANGED log
    \/ (\E id \in LayerIds : selectLayer(id)) /\ UNCHANGED log
    \/ (\E id \in LayerIds : toggleLayerVisibility(id)) /\ UNCHANGED log
    \/ (\E id \in LayerIds, b \in BOOLEAN : toggleBackgroundLayer(id, b)) /\ UNCHANGED log
    \/ CurLen < MaxOnionLen /\ addFrame /\ UNCHANGED log
    \/ (\E i \in 0..(MaxOnionLen - 1) : selectFrame(i)) /\ UNCHANGED log
    \/ Len(undoStack) < MaxOnionStrokes /\ RoomFor(MaxPaths) /\ startDrawing /\ UNCHANGED log
    \/ stopDrawing /\ UNCHANGED log

SpecOnion == InitOnion /\ [][NextOnion]_vars

(***************************************************************************)
(* Claims checked under SpecOnion.                                         *)
(***************************************************************************)
OnionDepths == 0..MaxOnionDepth

\* the strokes, in authored order and bottom layer first, that the layers
\* which are visible and not background have on frame f
VisibleStrokes(f) ==
    LET shown(l) == layers[l].visible /\ ~layers[l].isBackground /\ Has(layers[l].frames, f)
        count(l) == IF shown(l) THEN Len(At(layers[l].frames, f).paths) ELSE 0
        below[l \in 1..(Len(layers) + 1)] == IF l = 1 THEN 0 ELSE below[l - 1] + count(l - 1)
    IN  [k \in 1..below[Len(layers) + 1] |->
            LET l == CHOOSE j \in 1..Len(layers) : below[j] < k /\ k <= below[j] + count(j)
            IN  At(layers[l].frames, f).paths[k - below[l]]]

\* C34: with onion skin enabled, ghost groups are produced exactly for the
\* offsets i = 1..framesBefore with playhead - i >= 0 and i = 1..framesAfter
\* with playhead + i < maxFrames, so that a depth of 0 on a side gives no
\* ghost on that side; each ghost holds only strokes of the layers that are
\* visible and not background, from the frame at the offset index, in
\* authored order.
C34_OnionSkinGhosts ==
    \A framesBefore \in OnionDepths, framesAfter \in OnionDepths :
        LET prev == prevGroups(layers, currentFrameIndex, framesBefore, 1)
            next == nextGroups(layers, currentFrameIndex, maxFrames, framesAfter, 1)
        IN  /\ Len(prev) = Cardinality({i \in 1..framesBefore : currentFrameIndex - i >= 0})
            /\ Len(next) = Cardinality({i \in 1..framesAfter :
                                            currentFrameIndex + i < maxFrames})
            /\ \A i \in 1..Len(prev) : prev[i] = VisibleStrokes(currentFrameIndex - i)
            /\ \A i \in 1..Len(next) : next[i] = VisibleStrokes(currentFrameIndex + i)

\* the playhead is on the middle frame of three; a visible background layer
\* has a stroke on the frame before it and the other layer a stroke on the
\* frame after it
C34_GhostsAroundPlayhead ==
    /\ currentFrameIndex = 1 /\ maxFrames = 3 /\ Len(layers) = 2
    /\ \E l \in 1..2 :
           /\ layers[l].isBackground /\ layers[l].visible
           /\ Has(layers[l].frames, 0) /\ At(layers[l].frames, 0).paths # <<>>
    /\ VisibleStrokes(0) = <<>>
    /\ VisibleStrokes(2) # <<>>

(***************************************************************************)
(* SpecBrush: strokes on one frame while the taper slider is moved with    *)
(* the keyboard, also during a stroke, and the tool is chosen between      *)
(* strokes.                                                                *)
(***************************************************************************)
Tools == {"pen", "eraser"}

InitBrush == InitWith([ids |-> FALSE])

NextBrush ==
    \/ /\ Len(undoStack) < MaxBrushStrokes /\ RoomFor(MaxBrushStrokes)
       /\ startDrawing
       /\ UNCHANGED log
    \/ (\E pathData \in PathData : draw(pathData)) /\ UNCHANGED log
    \/ stopDrawing /\ UNCHANGED log
    \/ (\E value \in 0..MaxTaper : taperSlider(value)) /\ UNCHANGED log
    \/ (\E newTool \in Tools : selectTool(newTool)) /\ UNCHANGED log

SpecBrush == InitBrush /\ [][NextBrush]_vars

(***************************************************************************)
(* Claims checked under SpecBrush.                                         *)
(***************************************************************************)
\* C36: every committed stroke is in exactly one of two representations:
\* tapered (fill = stroke colour, stroke = none, closed outline path) or
\* uniform (fill = none, stroke set, open centerline path); the path geometry
\* stored at pointer-up matches the stored paint attributes, also when the
\* taper is changed while the stroke is in progress.  Stated for the strokes
\* that have path data.
C36_GeometryMatchesPaint ==
    \A l \in 1..Len(layers) :
        \A f \in 1..Len(layers[l].frames) :
            \A k \in 1..Len(layers[l].frames[f].paths) :
                LET p == layers[l].frames[f].paths[k]
                IN  p.d # Undefined
                        => \/ p.fill = "strokeColor" /\ p.stroke = "none" /\ p.closed
                           \/ p.fill = "none" /\ p.stroke # "none" /\ ~p.closed

(***************************************************************************)
(* SpecShift: applyShiftConstraint on a start point, a current point on a  *)
(* grid of step Grid and the state of the Alt key, which log holds with    *)
(* the point the function returns (out, <<>> before the call).             *)
(***************************************************************************)
Coords == {c * Grid : c \in (0 - MaxCoord)..MaxCoord}

InitShift ==
    \E sx \in {0, Grid}, cx \in Coords, cy \in Coords, alt \in BOOLEAN :
        InitWith([ids |-> FALSE, startPoint |-> [x |-> sx, y |-> 0 - sx],
                  currentPoint |-> [x |-> cx, y |-> cy], altPressed |-> alt, out |-> <<>>])

constrain ==
    /\ log.out = <<>>
    /\ log' = [log EXCEPT !.out = <<applyShiftConstraint(log.startPoint, log.currentPoint,
                                                         log.altPressed)>>]
    /\ UNCHANGED <<layers, currentLayerId, currentFrameIndex, maxFrames, layerIdCounter,
                   fps, modal, frameList, layerList, drawVars, playVars, histVars>>

NextShift == constrain

SpecShift == InitShift /\ [][NextShift]_vars

(***************************************************************************)
(* Claims checked under SpecShift.                                         *)
(***************************************************************************)
\* C37: with dx = current.x - start.x and dy = current.y - start.y,
\* applyShiftConstraint classifies circle-intent exactly when the force-circle
\* modifier is active or (min(|dx|,|dy|)/max(|dx|,|dy|) > 0.85 and |dx| > 50
\* and |dy| > 50); for circle-intent the resolved endpoint forms a square
\* bounding box with start, |x - start.x| = |y - start.y| = max(|dx|,|dy|),
\* e.g. start (0,0) and raw end (80,90) resolve to (90,90); otherwise the
\* line-snapping branch is taken.
C37_CircleIntent ==
    log.out # <<>> =>
        LET out == log.out[1]
            adx == Abs(log.currentPoint.x - log.startPoint.x)
            ady == Abs(log.currentPoint.y - log.startPoint.y)
            lo  == IF adx < ady THEN adx ELSE ady
            hi  == IF adx < ady THEN ady ELSE adx
            circle == \/ log.altPressed
                      \/ hi # 0 /\ 100 * lo > 85 * hi /\ adx > 50 /\ ady > 50
        IN  /\ out.mode = IF circle THEN "circle" ELSE "line"
            /\ circle => /\ Abs(out.x - log.startPoint.x) = hi
                          /\ Abs(out.y - log.startPoint.y) = hi
            /\ (log.startPoint = [x |-> 0, y |-> 0]
                    /\ log.currentPoint = [x |-> 80, y |-> 90] /\ ~log.altPressed)
                   => out = [mode |-> "circle", x |-> 90, y |-> 90]

\* the example of the claim: start (0,0), raw end (80,90), resolved to a square
C37_EightyNinetyResolved ==
    /\ log.out # <<>>
    /\ log.startPoint = [x |-> 0, y |-> 0]
    /\ log.currentPoint = [x |-> 80, y |-> 90]
    /\ ~log.altPressed
    /\ log.out[1].mode = "circle"

(***************************************************************************)
(* SpecTrack: one layer whose frames are added and deleted while a         *)
(* snapshot is on the undo stack.  log.at follows the frame the snapshot   *)
(* was taken from: its index now, Undefined when there is no snapshot or   *)
(* the frame has been deleted.                                             *)
(***************************************************************************)
InitTrack == InitWith([ids |-> FALSE, at |-> Undefined])

\* log.at after a frame was inserted at index
AfterInsert(index) ==
    [log EXCEPT !.at = IF @ # Undefined /\ index <= @ THEN @ + 1 ELSE @]

\* log.at after the frame at index was deleted
AfterDelete(index) ==
    [log EXCEPT !.at = IF @ = index THEN Undefined
                       ELSE IF @ # Undefined /\ index < @ THEN @ - 1 ELSE @]

NextTrack ==
    \/ CurLen < MaxLen /\ addFrame /\ log' = AfterInsert(currentFrameIndex')
    \/ deleteFrame /\ UNCHANGED log
    \/ deleteFrameConfirm /\ log' = AfterDelete(currentFrameIndex)
    \/ closeModal /\ UNCHANGED log
    \/ (\E i \in FrameIdx : selectFrame(i)) /\ UNCHANGED log
    \/ /\ Len(undoStack) < MaxHistory /\ RoomFor(MaxPaths)
       /\ startDrawing
       /\ log' = [log EXCEPT !.at = currentFrameIndex]
    \/ stopDrawing /\ UNCHANGED log
    \/ ~isDrawing /\ undo /\ log' = [log EXCEPT !.at = Undefined]

SpecTrack == InitTrack /\ [][NextTrack]_vars

(***************************************************************************)
(* Claims checked under SpecTrack.                                         *)
(***************************************************************************)
\* C39: an undo entry always restores the frame it was taken from: when
\* frames were inserted or deleted at a lower or equal index of the layer
\* after the snapshot, undo still overwrites the frame that was snapshotted
\* and never a frame that has since moved into the recorded index.
C39_UndoRestoresSnapshottedFrame ==
    [][ (undo /\ log.at # Undefined) =>
            LET top == undoStack[Len(undoStack)]
            IN  layers' = restored(layers, FindIndex(layers, top.layerId), log.at,
                                   top.frameState) ]_vars

(***************************************************************************)
(* SpecLayers: layers with frames are added, selected and deleted.         *)
(* log.pressed is the id of the layer whose delete button opened the       *)
(* dialog that is open.                                                    *)
(***************************************************************************)
InitLayers == InitWith([ids |-> FALSE, pressed |-> Undefined])

NextLayers ==
    \/ Len(layers) < MaxLayers /\ layerIdCounter < MaxLayerId /\ addLayer /\ UNCHANGED log
    \/ (\E id \in LayerIds : selectLayer(id)) /\ UNCHANGED log
    \/ \E id \in LayerIds : deleteLayer(id) /\ log' = [log EXCEPT !.pressed = id]
    \/ deleteLayerConfirm /\ log' = [log EXCEPT !.pressed = Undefined]
    \/ closeModal /\ log' = [log EXCEPT !.pressed = Undefined]
    \/ CurLen < MaxLen /\ addFrame /\ UNCHANGED log
    \/ (\E i \in FrameIdx : selectFrame(i)) /\ UNCHANGED log

SpecLayers == InitLayers /\ [][NextLayers]_vars

(***************************************************************************)
(* Claims checked under SpecLayers.                                        *)
(***************************************************************************)
\* C40: pressing the delete button of a layer removes exactly the layer whose
\* id is passed to deleteLayer and no other layer, whichever layer is
\* selected; the current layer changes only if it was the one deleted.
C40_DeleteRemovesPressedLayer ==
    [][ (deleteLayerConfirm /\ log.pressed # Undefined) =>
            /\ layers' = SelectSeq(layers, LAMBDA layer : layer.id # log.pressed)
            /\ currentLayerId # log.pressed => currentLayerId' = currentLayerId ]_vars

====
